---- MODULE Spec2Model ----
(***************************************************************************)
(* Call-to-agent dispatcher: CallOrchestrator (assign_call, the release    *)
(* timer and _complete_call, cancel_call, get_system_status), the Redis    *)
(* fast tier (agent hashes, the available_agents sorted set, call hashes,  *)
(* assignment locks, metrics), the PostgreSQL durable tier of agents, and  *)
(* the agent churn loop of the event generator.                            *)
(*                                                                         *)
(* Atomicity.  The program is asyncio code: the statements between two     *)
(* awaits of one task run without interruption, and every Redis / database *)
(* / webhook call is an await.  One step of the model is one such command  *)
(* executing at the server followed by the task's code up to the point     *)
(* where it issues its next command.  The arguments of the next command    *)
(* are computed at the end of the step (they are kept in the task's local  *)
(* record), as the Python code builds them before it awaits.               *)
(*                                                                         *)
(* Not carried: names, phone numbers, agent/call types, creation and       *)
(* update timestamps, the pending_calls list, gauges, and the scores of    *)
(* the sorted set (LongestIdleTimeStrategy re-sorts the candidates by      *)
(* their idle time).  Wall-clock time is a logical clock that advances     *)
(* at every Agent.complete_call; a release timer may fire at any moment    *)
(* after it was armed and a lock token may expire at any moment.           *)
(***************************************************************************)
EXTENDS Integers, Sequences, FiniteSets, TLC

\* ---------------------------------------------------------------- bounds
MaxCancels == 1
MaxPolls == 1
MaxChurn == 1
MaxUpdates == 1
\* simulate_call_arrivals: largest max_concurrent
MaxConcurrent == 2
\* select_agent alone: longest candidate list, latest last_call_end_time
MaxSelLen == 3
MaxSelEnd == 2
\* Assignment alone: largest sample of the call duration, in seconds
MaxDuration == 4
\* generate_test_calls alone: largest num_calls
MaxCalls == 6
\* qualify_call alone: a probability is k / ProbSteps, k in 0..ProbSteps
ProbSteps == 2
\* the availability index alone: latest wall time
MaxIdxTime == 2

\* ------------------------------------------------------------- universes
Agents == {"a1", "a2"}
Calls == {"c1", "c2"}
Workers == {"w1", "w2"}
Tasks == Workers \cup {"poll"}
Null == "null"
NoTime == -1

\* agents in creation order (find_all: ORDER BY created_at)
AgentOrder == <<"a1", "a2">>
\* ZREVRANGE order of members that share a score
RevOrder == <<"a2", "a1">>

AgentStatus == {"AVAILABLE", "BUSY", "PAUSED", "OFFLINE"}
CallStatus == {"PENDING", "ASSIGNED", "IN_PROGRESS", "COMPLETED", "ABANDONED", "FAILED"}
QualificationResult == {"OK", "KO", "PENDING"}
AssignmentStatus == {"PENDING", "ACTIVE", "COMPLETED", "FAILED"}

MetricNames == {"calls_assigned", "calls_saturated", "calls_completed", "calls_ok",
                "calls_ko", "calls_abandoned", "assignment_errors", "completion_errors"}
EventKinds == {"CALL_ASSIGNED", "CALL_COMPLETED", "SYSTEM_SATURATED"}

VARIABLES
    db,                  \* durable tier: agents table, agent id -> row
    ragent,              \* fast tier: agent:{id}:status hashes
    index,               \* fast tier: members of the available_agents sorted set
    rcall,               \* fast tier: call:{id}:status hashes (status NONE = no hash)
    lock,                \* fast tier: assignment_lock:{call id} -> acquiring worker, or Null
    metrics,             \* fast tier: metric:{name} counters
    events,              \* webhook posts sent, per kind and call id
    active_assignments,  \* CallOrchestrator.active_assignments: call id -> Assignment object
    call_timers,         \* CallOrchestrator.call_timers: call id -> timer task
    asg,                 \* Assignment objects, one per dispatch worker
    callObj,             \* Call objects handed to assign_call
    wobj,                \* which Call object each worker's assign_call was given
    pc,                  \* position of each assign_call execution and of get_system_status
    fa,                  \* locals of find_available, per task
    wl,                  \* locals of assign_call, per worker
    tpc,                 \* position of each release timer task
    tl,                  \* locals of _complete_call, per timer task
    xpc,                 \* position of cancel_call
    xl,                  \* locals of cancel_call; armed / fired: the timer's state at the call
    pl,                  \* locals of get_system_status / find_all
    chpc,                \* position of the churn loop (agent_status_simulator)
    cl,                  \* locals of the churn loop: its agent list and the agent being saved
    upc,                 \* position of AgentRepository.update_status
    ul,                  \* locals of update_status: the agent read, the status asked for
    sim,                 \* EventGenerator: is_running and the locals of simulate_call_arrivals
    ret,                 \* the last call of a function taken alone: its arguments and its result
    delay,               \* the delay each release timer sleeps for, per call id
    zscore,              \* the score of each member of the available_agents sorted set
    clock                \* logical wall clock

vars == <<db, ragent, index, rcall, lock, metrics, events, active_assignments,
          call_timers, asg, callObj, wobj, pc, fa, wl, tpc, tl, xpc, xl, pl,
          chpc, cl, upc, ul, sim, ret, delay, zscore, clock>>

storeVars == <<db, ragent, index, rcall, lock, metrics, events>>
orchVars == <<active_assignments, call_timers, asg>>
workerVars == <<callObj, wobj, pc, fa, wl>>
timerVars == <<tpc, tl>>
cancelVars == <<xpc, xl>>
pollVars == <<pl>>
churnVars == <<chpc, cl>>
updVars == <<upc, ul>>
pureVars == <<ret, delay, zscore>>

\* ------------------------------------------------------------- entities
\* Agent (domain/entities/agent.py): the fields the dispatcher uses
NewAgent(st) == [status |-> st, cur |-> Null, lastEnd |-> NoTime]
Ent(a, r) == [id |-> a, status |-> r.status, cur |-> r.cur, lastEnd |-> r.lastEnd]
Row(e) == [status |-> e.status, cur |-> e.cur, lastEnd |-> e.lastEnd]
NoAgent == [id |-> Null, status |-> "OFFLINE", cur |-> Null, lastEnd |-> NoTime]

\* Agent.is_available
is_available(e) == e.status = "AVAILABLE"

\* Agent.assign_call (the caller checks is_available, else ValueError)
AgentAssignCall(e, c) == [e EXCEPT !.status = "BUSY", !.cur = c]

\* Agent.complete_call (the caller checks status = BUSY, else ValueError)
AgentCompleteCall(e, now) ==
    [e EXCEPT !.status = "AVAILABLE", !.lastEnd = now, !.cur = Null]

\* Agent.set_available / Agent.set_paused
set_available(e) == [e EXCEPT !.status = "AVAILABLE"]
set_paused(e) == [e EXCEPT !.status = "PAUSED"]

\* Agent.get_idle_time_seconds compared: idle(e1) >= idle(e2) at time now;
\* a null last_call_end_time is float('inf')
IdleGE(e1, e2, now) ==
    \/ e1.lastEnd = NoTime
    \/ e2.lastEnd # NoTime /\ now - e1.lastEnd >= now - e2.lastEnd

IdleGT(e1, e2, now) == ~IdleGE(e2, e1, now)

\* Call (domain/entities/call.py)
NoCall == [status |-> "NONE", agent |-> Null, qual |-> "PENDING"]
NewCall(c) == [id |-> c, status |-> "PENDING", agent |-> Null, qual |-> "PENDING"]
\* the hash set_call_status writes for a Call object
CallData(o) == [status |-> o.status, agent |-> o.agent, qual |-> o.qual]

\* Assignment (domain/entities/assignment.py)
NoAssignment == [status |-> "NONE", call_id |-> Null, agent_id |-> Null]

\* ------------------------------------------------- LongestIdleTimeStrategy
\* the candidates, unfiltered
all_candidates(agents) == agents

\* [agent for agent in available_agents if agent.is_available()]
truly_available(agents) == SelectSeq(agents, is_available)

\* sorted(truly_available, key=idle, reverse=True)[0]: the first element of
\* the list that no other element beats (the sort is stable)
FirstMax(s, now) ==
    CHOOSE i \in 1..Len(s) :
        /\ \A j \in 1..Len(s) : IdleGE(s[i], s[j], now)
        /\ \A j \in 1..(i - 1) : IdleGT(s[i], s[j], now)

select_agent(agents, now) ==
    IF agents = <<>> THEN NoAgent
    ELSE IF truly_available(agents) = <<>> THEN NoAgent
    ELSE truly_available(agents)[FirstMax(truly_available(agents), now)]

\* ------------------------------------------------------------ fast tier
\* RedisClient.set_agent_status, first command: HSET agent:{id}:status
HSetAgent(e) == [ragent EXCEPT ![e.id] = Row(e)]

\* RedisClient.set_agent_status, second command: ZADD when available, else ZREM
ZUpdate(e) == IF is_available(e) THEN index \cup {e.id} ELSE index \ {e.id}

\* RedisClient.get_available_agents: ZREVRANGE available_agents 0 -1
get_available_agents == SelectSeq(RevOrder, LAMBDA a : a \in index)

\* RedisClient.increment_metric
Incr(m, name) == [m EXCEPT ![name] = @ + 1]

\* WebhookClient._send_webhook of an event about call c
Emit(kind, c) == [events EXCEPT ![kind][c] = @ + 1]

\* AgentRepository.find_available, database fallback:
\* SELECT ... WHERE status = AVAILABLE ORDER BY last_call_end_time ASC NULLS FIRST
DbAvailable ==
    SelectSeq(AgentOrder, LAMBDA a : db[a].status = "AVAILABLE" /\ db[a].lastEnd = NoTime)
    \o SelectSeq(AgentOrder, LAMBDA a : db[a].status = "AVAILABLE" /\ db[a].lastEnd # NoTime)

EntSeq(ids, store) == [i \in 1..Len(ids) |-> Ent(ids[i], store[ids[i]])]

\* ---------------------------------------------------------------- Init
\* no simulate_call_arrivals is running
NoSim == [running |-> FALSE, main |-> "none", n |-> 0, i |-> 0, max |-> 0,
          spc |-> [w \in Workers |-> "none"],
          results |-> [succ |-> 0, fail |-> 0, sat |-> 0, times |-> 0]]

\* no function has been called alone
NoRet == [fn |-> "none", arg |-> <<>>, val |-> <<>>]

InitStatus == {"AVAILABLE", "OFFLINE"}

\* everything but the Assignment objects, the locals of find_available and the clock
InitBase ==
    /\ db \in [Agents -> {NewAgent(st) : st \in InitStatus}]
    /\ ragent = db
    /\ index = {a \in Agents : db[a].status = "AVAILABLE"}
    /\ rcall = [c \in Calls |-> NoCall]
    /\ lock = [c \in Calls |-> Null]
    /\ metrics = [m \in MetricNames |-> 0]
    /\ events = [k \in EventKinds |-> [c \in Calls |-> 0]]
    /\ active_assignments = [c \in Calls |-> Null]
    /\ call_timers = [c \in Calls |-> Null]
    /\ \E c2 \in Calls : \E o2 \in Workers :
          /\ (o2 = "w1") => (c2 = "c1")
          /\ wobj = [w \in Workers |-> IF w = "w1" THEN "w1" ELSE o2]
          /\ callObj = [w \in Workers |-> IF w = "w1" THEN NewCall("c1") ELSE NewCall(c2)]
    /\ pc = [t \in Tasks |-> "idle"]
    /\ wl = [w \in Workers |-> [arg |-> NoCall, agent |-> NoAgent, res |-> "none",
                               wrote |-> FALSE, cfail |-> FALSE]]
    /\ tpc = [w \in Workers |-> "none"]
    /\ tl = [w \in Workers |-> [agent |-> NoAgent, call |-> NoCall, q |-> "PENDING"]]
    /\ xpc = "idle"
    /\ xl = [call |-> Null, aid |-> Null, agent |-> NoAgent, res |-> "none", n |-> 0,
             armed |-> FALSE, fired |-> FALSE, mid |-> FALSE]
    /\ pl = [todo |-> <<>>, n |-> 0]
    /\ chpc = "idle"
    /\ cl = [obj |-> db, agent |-> NoAgent, n |-> 0]
    /\ upc = "idle"
    /\ ul = [aid |-> Null, st |-> "OFFLINE", agent |-> NoAgent, n |-> 0]
    /\ sim = NoSim
    /\ ret = NoRet
    /\ delay = [c \in Calls |-> NoTime]
    /\ zscore = [a \in Agents |-> NoTime]

\* everything but the locals of find_available and the clock
InitRest ==
    /\ InitBase
    /\ asg = [w \in Workers |-> NoAssignment]

Init ==
    /\ InitRest
    /\ fa = [t \in Tasks |-> [ids |-> <<>>, acc |-> <<>>, todo |-> <<>>]]
    /\ clock = 0

\* the Call object and call id of worker w
Obj(w) == callObj[wobj[w]]
CallOf(w) == callObj[wobj[w]].id

\* ------------------------------------------------ CallOrchestrator.assign_call
\* AssignmentService.assign_call fails: the call is not PENDING or no agent selected
AssignFails(call, agents) ==
    call.status # "PENDING" \/ select_agent(agents, clock).id = Null

\* the code of assign_call that follows find_available (orchestrator.py 71-105):
\* saturation, or the domain service's bind of call, agent and assignment
AfterFindW(w, agents) ==
    LET o == wobj[w]
        call == callObj[o]
        sel == select_agent(agents, clock)
        bound == [call EXCEPT !.status = "ASSIGNED", !.agent = sel.id]
    IN
    IF agents = <<>> THEN
        \* _handle_saturation: call.status = FAILED; set_call_status(call) is issued
        /\ callObj' = [callObj EXCEPT ![o].status = "FAILED"]
        /\ wl' = [wl EXCEPT ![w].arg = CallData([call EXCEPT !.status = "FAILED"])]
        /\ pc' = [pc EXCEPT ![w] = "sat_write"]
        /\ UNCHANGED <<asg, active_assignments>>
    ELSE IF AssignFails(call, agents) THEN
        \* "Assignment failed - agent selection error"; the finally block follows
        /\ wl' = [wl EXCEPT ![w].res = "selection_error"]
        /\ pc' = [pc EXCEPT ![w] = "release"]
        /\ UNCHANGED <<callObj, asg, active_assignments>>
    ELSE
        \* call.assign_to_agent, selected_agent.assign_call, assignment.activate,
        \* active_assignments[call.id] = assignment; set_call_status(call) is issued
        /\ callObj' = [callObj EXCEPT ![o] = bound]
        /\ asg' = [asg EXCEPT ![w] = [status |-> "ACTIVE", call_id |-> call.id,
                                      agent_id |-> sel.id]]
        /\ active_assignments' = [active_assignments EXCEPT ![call.id] = w]
        /\ wl' = [wl EXCEPT ![w].arg = CallData(bound),
                            ![w].agent = AgentAssignCall(sel, call.id)]
        /\ pc' = [pc EXCEPT ![w] = "bind_call"]

\* get_system_status after its find_available: the counts are returned
AfterFindP ==
    /\ pc' = [pc EXCEPT !["poll"] = "idle"]
    /\ UNCHANGED <<callObj, asg, active_assignments, wl>>

AfterFind(t, agents) ==
    IF t = "poll" THEN AfterFindP ELSE AfterFindW(t, agents)

\* assign_call is started on a PENDING-created Call object; set_call_status(call) is issued
Start(w) ==
    /\ pc[w] = "idle"
    /\ pc' = [pc EXCEPT ![w] = "reg"]
    /\ wl' = [wl EXCEPT ![w].arg = CallData(Obj(w))]
    /\ UNCHANGED <<storeVars, orchVars, callObj, wobj, fa, timerVars, cancelVars,
                   pollVars, churnVars, updVars, pureVars, sim, clock>>

\* set_call_status(call) registers the call; create_assignment_lock is issued
Register(w) ==
    /\ pc[w] = "reg"
    /\ rcall' = [rcall EXCEPT ![CallOf(w)] = wl[w].arg]
    /\ pc' = [pc EXCEPT ![w] = "lock"]
    /\ UNCHANGED <<db, ragent, index, lock, metrics, events, orchVars, callObj, wobj,
                   fa, wl, timerVars, cancelVars, pollVars, churnVars, updVars, pureVars, sim, clock>>

\* RedisClient.create_assignment_lock: SET key value NX EX 5
create_assignment_lock(c) == lock[c] = Null

\* lock acquired: find_available is entered; lock taken: the race result is returned
AcquireLock(w) ==
    /\ pc[w] = "lock"
    /\ IF create_assignment_lock(CallOf(w))
       THEN /\ lock' = [lock EXCEPT ![CallOf(w)] = w]
            /\ pc' = [pc EXCEPT ![w] = "fa_zrange"]
            /\ wl' = wl
       ELSE /\ lock' = lock
            /\ pc' = [pc EXCEPT ![w] = "done"]
            /\ wl' = [wl EXCEPT ![w].res = "race"]
    /\ UNCHANGED <<db, ragent, index, rcall, metrics, events, orchVars, callObj, wobj,
                   fa, timerVars, cancelVars, pollVars, churnVars, updVars, pureVars, sim, clock>>

\* the token's TTL (5 s) runs out
LockExpire(c) ==
    /\ lock[c] # Null
    /\ lock' = [lock EXCEPT ![c] = Null]
    /\ UNCHANGED <<db, ragent, index, rcall, metrics, events, orchVars, workerVars,
                   timerVars, cancelVars, pollVars, churnVars, updVars, pureVars, sim, clock>>

\* ------------------------------------------------ AgentRepository.find_available
\* get_available_agents: the ids of the sorted set; an empty answer falls
\* through to the database
FaRange(t) ==
    /\ pc[t] = "fa_zrange"
    /\ IF get_available_agents # <<>>
       THEN /\ fa' = [fa EXCEPT ![t] = [ids |-> get_available_agents, acc |-> <<>>,
                                        todo |-> <<>>]]
            /\ pc' = [pc EXCEPT ![t] = "fa_get"]
       ELSE /\ fa' = [fa EXCEPT ![t] = [ids |-> <<>>, acc |-> <<>>, todo |-> <<>>]]
            /\ pc' = [pc EXCEPT ![t] = "fa_db"]
    /\ UNCHANGED <<storeVars, orchVars, callObj, wobj, wl, timerVars, cancelVars,
                   pollVars, churnVars, updVars, pureVars, sim, clock>>

\* find_by_id of the next id (a fast-tier hit); only available agents are kept
FaGet(t) ==
    /\ pc[t] = "fa_get"
    /\ LET a == Head(fa[t].ids)
           e == Ent(a, ragent[a])
           acc == IF is_available(e) THEN Append(fa[t].acc, e) ELSE fa[t].acc
       IN IF Tail(fa[t].ids) # <<>>
          THEN /\ fa' = [fa EXCEPT ![t].ids = Tail(@), ![t].acc = acc]
               /\ UNCHANGED <<pc, callObj, asg, active_assignments, wl>>
          ELSE /\ fa' = [fa EXCEPT ![t].ids = <<>>, ![t].acc = acc]
               /\ AfterFind(t, acc)
    /\ UNCHANGED <<storeVars, call_timers, wobj, timerVars, cancelVars, pollVars,
                   churnVars, updVars, pureVars, sim, clock>>

\* database fallback: the AVAILABLE rows; each is then written to the fast tier
FaDb(t) ==
    /\ pc[t] = "fa_db"
    /\ LET rows == EntSeq(DbAvailable, db)
       IN IF rows # <<>>
          THEN /\ fa' = [fa EXCEPT ![t].acc = rows, ![t].todo = rows]
               /\ pc' = [pc EXCEPT ![t] = "fa_dbw_hset"]
               /\ UNCHANGED <<callObj, asg, active_assignments, wl>>
          ELSE /\ fa' = fa
               /\ AfterFind(t, <<>>)
    /\ UNCHANGED <<storeVars, call_timers, wobj, timerVars, cancelVars, pollVars,
                   churnVars, updVars, pureVars, sim, clock>>

MarkWrote(t) == IF t \in Workers THEN [wl EXCEPT ![t].wrote = TRUE] ELSE wl

FaDbHSet(t) ==
    /\ pc[t] = "fa_dbw_hset"
    /\ ragent' = HSetAgent(Head(fa[t].todo))
    /\ pc' = [pc EXCEPT ![t] = "fa_dbw_zadd"]
    /\ wl' = MarkWrote(t)
    /\ UNCHANGED <<db, index, rcall, lock, metrics, events, orchVars, callObj, wobj,
                   fa, timerVars, cancelVars, pollVars, churnVars, updVars, pureVars, sim, clock>>

FaDbZAdd(t) ==
    /\ pc[t] = "fa_dbw_zadd"
    /\ index' = ZUpdate(Head(fa[t].todo))
    /\ IF Tail(fa[t].todo) # <<>>
       THEN /\ fa' = [fa EXCEPT ![t].todo = Tail(@)]
            /\ pc' = [pc EXCEPT ![t] = "fa_dbw_hset"]
            /\ UNCHANGED <<callObj, asg, active_assignments, wl>>
       ELSE /\ fa' = [fa EXCEPT ![t].todo = <<>>]
            /\ AfterFind(t, fa[t].acc)
    /\ UNCHANGED <<db, ragent, rcall, lock, metrics, events, call_timers, wobj,
                   timerVars, cancelVars, pollVars, churnVars, updVars, pureVars, sim, clock>>

FindAvailable(t) ==
    \/ FaRange(t) \/ FaGet(t) \/ FaDb(t) \/ FaDbHSet(t) \/ FaDbZAdd(t)

\* ------------------------------------------------ assign_call, saturation
\* _handle_saturation: set_call_status(call) with status FAILED
SatWrite(w) ==
    /\ pc[w] = "sat_write"
    /\ rcall' = [rcall EXCEPT ![CallOf(w)] = wl[w].arg]
    /\ pc' = [pc EXCEPT ![w] = "sat_notify"]
    /\ UNCHANGED <<db, ragent, index, lock, metrics, events, orchVars, callObj, wobj,
                   fa, wl, timerVars, cancelVars, pollVars, churnVars, updVars, pureVars, sim, clock>>

\* webhook_client.notify_saturation
SatNotify(w) ==
    /\ pc[w] = "sat_notify"
    /\ events' = Emit("SYSTEM_SATURATED", CallOf(w))
    /\ pc' = [pc EXCEPT ![w] = "sat_metric"]
    /\ UNCHANGED <<db, ragent, index, rcall, lock, metrics, orchVars, callObj, wobj,
                   fa, wl, timerVars, cancelVars, pollVars, churnVars, updVars, pureVars, sim, clock>>

\* the saturation result is returned without the counter
SatNoMetric(w) ==
    /\ pc[w] = "sat_metric"
    /\ wl' = [wl EXCEPT ![w].res = "saturated"]
    /\ pc' = [pc EXCEPT ![w] = "release"]
    /\ UNCHANGED <<storeVars, orchVars, callObj, wobj, fa, timerVars, cancelVars,
                   pollVars, churnVars, updVars, pureVars, sim, clock>>

\* increment_metric("calls_saturated"); the saturation result is returned
SatMetric(w) ==
    /\ pc[w] = "sat_metric"
    /\ metrics' = Incr(metrics, "calls_saturated")
    /\ wl' = [wl EXCEPT ![w].res = "saturated"]
    /\ pc' = [pc EXCEPT ![w] = "release"]
    /\ UNCHANGED <<db, ragent, index, rcall, lock, events, orchVars, callObj, wobj,
                   fa, timerVars, cancelVars, pollVars, churnVars, updVars, pureVars, sim, clock>>

\* ------------------------------------------------ assign_call, bind
\* set_call_status(call): the ASSIGNED call
BindCall(w) ==
    /\ pc[w] = "bind_call"
    /\ rcall' = [rcall EXCEPT ![CallOf(w)] = wl[w].arg]
    /\ pc' = [pc EXCEPT ![w] = "bind_hset"]
    /\ UNCHANGED <<db, ragent, index, lock, metrics, events, orchVars, callObj, wobj,
                   fa, wl, timerVars, cancelVars, pollVars, churnVars, updVars, pureVars, sim, clock>>

\* set_agent_status(selected_agent): HSET of the BUSY agent
BindHSet(w) ==
    /\ pc[w] = "bind_hset"
    /\ ragent' = HSetAgent(wl[w].agent)
    /\ wl' = [wl EXCEPT ![w].wrote = TRUE]
    /\ pc' = [pc EXCEPT ![w] = "bind_zrem"]
    /\ UNCHANGED <<db, index, rcall, lock, metrics, events, orchVars, callObj, wobj,
                   fa, timerVars, cancelVars, pollVars, churnVars, updVars, pureVars, sim, clock>>

\* set_agent_status(selected_agent): ZREM from available_agents
BindZRem(w) ==
    /\ pc[w] = "bind_zrem"
    /\ index' = ZUpdate(wl[w].agent)
    /\ pc' = [pc EXCEPT ![w] = "rm_pending"]
    /\ UNCHANGED <<db, ragent, rcall, lock, metrics, events, orchVars, callObj, wobj,
                   fa, wl, timerVars, cancelVars, pollVars, churnVars, updVars, pureVars, sim, clock>>

\* remove_pending_call, then _schedule_call_completion: the timer task is
\* created and stored in call_timers
Schedule(w) ==
    /\ pc[w] = "rm_pending"
    /\ tpc' = [tpc EXCEPT ![w] = "sleeping"]
    /\ call_timers' = [call_timers EXCEPT ![CallOf(w)] = w]
    /\ pc' = [pc EXCEPT ![w] = "notify"]
    /\ UNCHANGED <<storeVars, active_assignments, asg, callObj, wobj, fa, wl, tl,
                   cancelVars, pollVars, churnVars, updVars, pureVars, sim, clock>>

\* _notify_assignment: the CALL_ASSIGNED webhook
Notify(w) ==
    /\ pc[w] = "notify"
    /\ events' = Emit("CALL_ASSIGNED", CallOf(w))
    /\ pc' = [pc EXCEPT ![w] = "metric"]
    /\ UNCHANGED <<db, ragent, index, rcall, lock, metrics, orchVars, callObj, wobj,
                   fa, wl, timerVars, cancelVars, pollVars, churnVars, updVars, pureVars, sim, clock>>

\* increment_metric("calls_assigned"), set_metric; the success result is returned
Metric(w) ==
    /\ pc[w] = "metric"
    /\ metrics' = Incr(metrics, "calls_assigned")
    /\ wl' = [wl EXCEPT ![w].res = "success"]
    /\ pc' = [pc EXCEPT ![w] = "release"]
    /\ UNCHANGED <<db, ragent, index, rcall, lock, events, orchVars, callObj, wobj,
                   fa, timerVars, cancelVars, pollVars, churnVars, updVars, pureVars, sim, clock>>

\* finally: release_assignment_lock deletes the key, whoever set it
ReleaseLock(w) ==
    /\ pc[w] = "release"
    /\ lock' = [lock EXCEPT ![CallOf(w)] = Null]
    /\ pc' = [pc EXCEPT ![w] = "done"]
    /\ UNCHANGED <<db, ragent, index, rcall, metrics, events, orchVars, callObj, wobj,
                   fa, wl, timerVars, cancelVars, pollVars, churnVars, updVars, pureVars, sim, clock>>

\* ------------------------------------------------ release timer, _complete_call
\* the timer task registered for worker w's dispatch completes that call with that agent
TCall(w) == asg[w].call_id
TAgent(w) == asg[w].agent_id

\* asyncio.sleep(duration) is over: _complete_call starts, find_by_id(agent_id) is issued
Fire(w) ==
    /\ tpc[w] = "sleeping"
    /\ tpc' = [tpc EXCEPT ![w] = "c_getagent"]
    /\ UNCHANGED <<storeVars, orchVars, workerVars, tl, cancelVars, pollVars,
                   churnVars, updVars, pureVars, sim, clock>>

\* find_by_id (a fast-tier hit); get_call_status is issued
CGetAgent(w) ==
    /\ tpc[w] = "c_getagent"
    /\ tl' = [tl EXCEPT ![w].agent = Ent(TAgent(w), ragent[TAgent(w)])]
    /\ tpc' = [tpc EXCEPT ![w] = "c_getcall"]
    /\ UNCHANGED <<storeVars, orchVars, workerVars, cancelVars, pollVars, churnVars, updVars, pureVars, sim,
                   clock>>

\* Call.complete_call without its status guard
AnyCallCompletable(cd) == cd.status \in CallStatus

\* Call.complete_call raises unless the stored call is ASSIGNED or IN_PROGRESS
CallCompletable(cd) == cd.status \in {"ASSIGNED", "IN_PROGRESS"}

\* Assignment.complete raises unless the assignment filed under the call id is ACTIVE
AssignmentCompletable(c) ==
    active_assignments[c] # Null => asg[active_assignments[c]].status = "ACTIVE"

\* get_call_status; then qualify_call, call.complete_call, agent.complete_call,
\* assignment.complete and its removal from active_assignments; a ValueError
\* goes to the except block.  set_call_status(call) is issued.
CGetCall(w) ==
    /\ tpc[w] = "c_getcall"
    /\ LET c == TCall(w)
           cd == rcall[c]
           agent == tl[w].agent
       IN IF cd.status = "NONE"
          THEN \* "Call not found for completion": return
               /\ tpc' = [tpc EXCEPT ![w] = "done"]
               /\ UNCHANGED <<tl, asg, active_assignments, clock>>
          ELSE IF ~CallCompletable(cd) \/ agent.status # "BUSY"
                  \/ ~AssignmentCompletable(c)
          THEN /\ tpc' = [tpc EXCEPT ![w] = "c_err"]
               /\ UNCHANGED <<tl, asg, active_assignments, clock>>
          ELSE \E q \in {"OK", "KO"} :
               /\ tl' = [tl EXCEPT ![w] =
                           [agent |-> AgentCompleteCall(agent, clock),
                            call |-> [status |-> "COMPLETED", agent |-> cd.agent,
                                      qual |-> q],
                            q |-> q]]
               /\ clock' = clock + 1
               /\ IF active_assignments[c] # Null
                  THEN /\ asg' = [asg EXCEPT ![active_assignments[c]].status = "COMPLETED"]
                       /\ active_assignments' = [active_assignments EXCEPT ![c] = Null]
                  ELSE UNCHANGED <<asg, active_assignments>>
               /\ tpc' = [tpc EXCEPT ![w] = "c_setcall"]
    /\ UNCHANGED <<storeVars, call_timers, workerVars, cancelVars, pollVars, churnVars, updVars, pureVars, sim>>

\* set_call_status(call): the COMPLETED call
CSetCall(w) ==
    /\ tpc[w] = "c_setcall"
    /\ rcall' = [rcall EXCEPT ![TCall(w)] = tl[w].call]
    /\ tpc' = [tpc EXCEPT ![w] = "c_hset"]
    /\ UNCHANGED <<db, ragent, index, lock, metrics, events, orchVars, workerVars, tl,
                   cancelVars, pollVars, churnVars, updVars, pureVars, sim, clock>>

\* set_agent_status(agent): HSET of the AVAILABLE agent
CHSet(w) ==
    /\ tpc[w] = "c_hset"
    /\ ragent' = HSetAgent(tl[w].agent)
    /\ tpc' = [tpc EXCEPT ![w] = "c_zadd"]
    /\ UNCHANGED <<db, index, rcall, lock, metrics, events, orchVars, workerVars, tl,
                   cancelVars, pollVars, churnVars, updVars, pureVars, sim, clock>>

\* set_agent_status(agent): ZADD to available_agents; then the entry of
\* call_timers under the call id is deleted
CZAdd(w) ==
    /\ tpc[w] = "c_zadd"
    /\ index' = ZUpdate(tl[w].agent)
    /\ call_timers' = [call_timers EXCEPT ![TCall(w)] = Null]
    /\ tpc' = [tpc EXCEPT ![w] = "c_notify"]
    /\ UNCHANGED <<db, ragent, rcall, lock, metrics, events, active_assignments, asg,
                   workerVars, tl, cancelVars, pollVars, churnVars, updVars, pureVars, sim, clock>>

\* _notify_call_completion: the CALL_COMPLETED webhook
CNotify(w) ==
    /\ tpc[w] = "c_notify"
    /\ events' = Emit("CALL_COMPLETED", TCall(w))
    /\ tpc' = [tpc EXCEPT ![w] = "c_metric1"]
    /\ UNCHANGED <<db, ragent, index, rcall, lock, metrics, orchVars, workerVars, tl,
                   cancelVars, pollVars, churnVars, updVars, pureVars, sim, clock>>

\* increment_metric("calls_completed")
CMetric1(w) ==
    /\ tpc[w] = "c_metric1"
    /\ metrics' = Incr(metrics, "calls_completed")
    /\ tpc' = [tpc EXCEPT ![w] = "c_metric2"]
    /\ UNCHANGED <<db, ragent, index, rcall, lock, events, orchVars, workerVars, tl,
                   cancelVars, pollVars, churnVars, updVars, pureVars, sim, clock>>

\* increment_metric("calls_ok" | "calls_ko"), set_metric("last_call_duration")
CMetric2(w) ==
    /\ tpc[w] = "c_metric2"
    /\ metrics' = Incr(metrics, IF tl[w].q = "OK" THEN "calls_ok" ELSE "calls_ko")
    /\ tpc' = [tpc EXCEPT ![w] = "done"]
    /\ UNCHANGED <<db, ragent, index, rcall, lock, events, orchVars, workerVars, tl,
                   cancelVars, pollVars, churnVars, updVars, pureVars, sim, clock>>

\* except Exception: increment_metric("completion_errors")
CErr(w) ==
    /\ tpc[w] = "c_err"
    /\ metrics' = Incr(metrics, "completion_errors")
    /\ tpc' = [tpc EXCEPT ![w] = "failed"]
    /\ UNCHANGED <<db, ragent, index, rcall, lock, events, orchVars, workerVars, tl,
                   cancelVars, pollVars, churnVars, updVars, pureVars, sim, clock>>

Complete(w) ==
    \/ Fire(w) \/ CGetAgent(w) \/ CGetCall(w) \/ CSetCall(w) \/ CHSet(w) \/ CZAdd(w)
    \/ CNotify(w) \/ CMetric1(w) \/ CMetric2(w) \/ CErr(w)

\* ------------------------------------------------ CallOrchestrator.cancel_call
\* Task.cancel() of timer task w: CancelledError is raised at the await the task
\* is suspended on and passes _complete_call's "except Exception"; the command
\* that await had issued may (applied) or may not have reached its server.
\* A finished task is not affected.
TimerCancelled(w, applied) ==
    IF tpc[w] \in {"none", "done", "failed", "cancelled"}
    THEN UNCHANGED <<rcall, ragent, index, events, metrics, tpc>>
    ELSE
        /\ tpc' = [tpc EXCEPT ![w] = "cancelled"]
        /\ rcall' = IF applied /\ tpc[w] = "c_setcall"
                    THEN [rcall EXCEPT ![TCall(w)] = tl[w].call] ELSE rcall
        /\ ragent' = IF applied /\ tpc[w] = "c_hset" THEN HSetAgent(tl[w].agent) ELSE ragent
        /\ index' = IF applied /\ tpc[w] = "c_zadd" THEN ZUpdate(tl[w].agent) ELSE index
        /\ events' = IF applied /\ tpc[w] = "c_notify"
                     THEN Emit("CALL_COMPLETED", TCall(w)) ELSE events
        /\ metrics' = IF ~applied THEN metrics
                      ELSE IF tpc[w] = "c_metric1" THEN Incr(metrics, "calls_completed")
                      ELSE IF tpc[w] = "c_metric2"
                           THEN Incr(metrics, IF tl[w].q = "OK" THEN "calls_ok" ELSE "calls_ko")
                      ELSE IF tpc[w] = "c_err" THEN Incr(metrics, "completion_errors")
                      ELSE metrics

\* whether a command of timer task w is in flight whose arrival changes the store
InFlightWrite(w) ==
    tpc[w] \in {"c_setcall", "c_hset", "c_zadd", "c_notify", "c_metric1", "c_metric2", "c_err"}

\* the release timer of call c is armed and has not fired (asyncio.sleep is pending)
TimerArmed(c) == call_timers[c] # Null /\ tpc[call_timers[c]] = "sleeping"

\* the release timer of a dispatch of call c has fired and _complete_call has
\* run to its end (its last metric is written)
TimerFinished(c) == \E w \in Workers : TCall(w) = c /\ tpc[w] = "done"

\* a dispatch of call c (assign_call) or the completion of call c (_complete_call,
\* run by the timer task once its sleep is over) has begun and not returned: it
\* is suspended at one of its awaits
InProgress(c) ==
    \/ \E w \in Workers : CallOf(w) = c /\ pc[w] \notin {"idle", "done"}
    \/ \E w \in Workers :
          /\ TCall(w) = c
          /\ tpc[w] \notin {"none", "sleeping", "done", "failed", "cancelled"}

\* cancel_call(c) starts: the timer under the call id is cancelled and its entry
\* deleted; get_call_status is issued
XStart(c) ==
    /\ xpc = "idle"
    /\ xl.n < MaxCancels
    /\ IF call_timers[c] # Null
       THEN \E applied \in BOOLEAN :
               /\ (~InFlightWrite(call_timers[c])) => applied
               /\ TimerCancelled(call_timers[c], applied)
       ELSE UNCHANGED <<rcall, ragent, index, events, metrics, tpc>>
    /\ call_timers' = [call_timers EXCEPT ![c] = Null]
    /\ xpc' = "x_getcall"
    /\ xl' = [call |-> c, aid |-> Null, agent |-> NoAgent, res |-> "none", n |-> xl.n + 1,
              armed |-> TimerArmed(c), fired |-> TimerFinished(c), mid |-> InProgress(c)]
    /\ UNCHANGED <<db, lock, active_assignments, asg, workerVars, tl, pollVars,
                   churnVars, updVars, pureVars, sim, clock>>

\* cancel_call after the call's status was handled: "if call_id in self.active_assignments"
XAfterCall ==
    IF active_assignments[xl.call] # Null
    THEN /\ xl' = [xl EXCEPT !.aid = asg[active_assignments[xl.call]].agent_id]
         /\ xpc' = "x_getagent"
    ELSE /\ xl' = xl
         /\ xpc' = "x_metric"

\* get_call_status; a stored call is rebuilt from id, phone, type and status,
\* abandoned, and set_call_status is issued
XGetCall ==
    /\ xpc = "x_getcall"
    /\ IF rcall[xl.call].status # "NONE"
       THEN /\ xpc' = "x_setcall"
            /\ xl' = xl
       ELSE XAfterCall
    /\ UNCHANGED <<storeVars, orchVars, workerVars, timerVars, pollVars, churnVars, updVars, pureVars, sim, clock>>

\* Call.abandon_call on the rebuilt Call: no agent id, qualification PENDING
AbandonedCall == [status |-> "ABANDONED", agent |-> Null, qual |-> "PENDING"]

\* set_call_status(call): the ABANDONED call
XSetCall ==
    /\ xpc = "x_setcall"
    /\ rcall' = [rcall EXCEPT ![xl.call] = AbandonedCall]
    /\ XAfterCall
    /\ UNCHANGED <<db, ragent, index, lock, metrics, events, orchVars, workerVars,
                   timerVars, pollVars, churnVars, updVars, pureVars, sim, clock>>

\* find_by_id(assignment.agent_id); agent.complete_call() raises unless BUSY and
\* cancel_call then returns False
XGetAgent ==
    /\ xpc = "x_getagent"
    /\ LET agent == Ent(xl.aid, ragent[xl.aid])
       IN IF agent.status # "BUSY"
          THEN /\ xpc' = "idle"
               /\ xl' = [xl EXCEPT !.res = "false"]
               /\ clock' = clock
          ELSE /\ xpc' = "x_hset"
               /\ xl' = [xl EXCEPT !.agent = AgentCompleteCall(agent, clock)]
               /\ clock' = clock + 1
    /\ UNCHANGED <<storeVars, orchVars, workerVars, timerVars, pollVars, churnVars, updVars, pureVars, sim>>

XHSet ==
    /\ xpc = "x_hset"
    /\ ragent' = HSetAgent(xl.agent)
    /\ xpc' = "x_zadd"
    /\ UNCHANGED <<db, index, rcall, lock, metrics, events, orchVars, workerVars,
                   timerVars, xl, pollVars, churnVars, updVars, pureVars, sim, clock>>

\* ZADD; then "del self.active_assignments[call_id]", a KeyError when the entry is gone
XZAdd ==
    /\ xpc = "x_zadd"
    /\ index' = ZUpdate(xl.agent)
    /\ IF active_assignments[xl.call] # Null
       THEN /\ active_assignments' = [active_assignments EXCEPT ![xl.call] = Null]
            /\ xpc' = "x_metric"
            /\ xl' = xl
       ELSE /\ active_assignments' = active_assignments
            /\ xpc' = "idle"
            /\ xl' = [xl EXCEPT !.res = "false"]
    /\ UNCHANGED <<db, ragent, rcall, lock, metrics, events, call_timers, asg,
                   workerVars, timerVars, pollVars, churnVars, updVars, pureVars, sim, clock>>

\* increment_metric("calls_abandoned"); cancel_call returns True
XMetric ==
    /\ xpc = "x_metric"
    /\ metrics' = Incr(metrics, "calls_abandoned")
    /\ xpc' = "idle"
    /\ xl' = [xl EXCEPT !.res = "true"]
    /\ UNCHANGED <<db, ragent, index, rcall, lock, events, orchVars, workerVars,
                   timerVars, pollVars, churnVars, updVars, pureVars, sim, clock>>

Cancel ==
    \/ \E c \in Calls : XStart(c)
    \/ XGetCall \/ XSetCall \/ XGetAgent \/ XHSet \/ XZAdd \/ XMetric

\* ------------------------------------------------ CallOrchestrator.get_system_status
\* get_all_metrics, then find_all: every row of the agents table is read
PStart ==
    /\ pc["poll"] = "idle"
    /\ pl.n < MaxPolls
    /\ pl' = [todo |-> EntSeq(AgentOrder, db), n |-> pl.n + 1]
    /\ pc' = [pc EXCEPT !["poll"] = "p_hset"]
    /\ UNCHANGED <<storeVars, orchVars, callObj, wobj, fa, wl, timerVars, cancelVars,
                   churnVars, updVars, pureVars, sim, clock>>

\* find_all: set_agent_status of the next row, HSET
PHSet ==
    /\ pc["poll"] = "p_hset"
    /\ ragent' = HSetAgent(Head(pl.todo))
    /\ pc' = [pc EXCEPT !["poll"] = "p_zadd"]
    /\ UNCHANGED <<db, index, rcall, lock, metrics, events, orchVars, callObj, wobj, fa,
                   wl, timerVars, cancelVars, pollVars, churnVars, updVars, pureVars, sim, clock>>

\* find_all: set_agent_status of that row, ZADD / ZREM; after the last row
\* find_available is entered
PZAdd ==
    /\ pc["poll"] = "p_zadd"
    /\ index' = ZUpdate(Head(pl.todo))
    /\ pl' = [pl EXCEPT !.todo = Tail(@)]
    /\ pc' = [pc EXCEPT !["poll"] = IF Tail(pl.todo) # <<>> THEN "p_hset" ELSE "fa_zrange"]
    /\ UNCHANGED <<db, ragent, rcall, lock, metrics, events, orchVars, callObj, wobj, fa,
                   wl, timerVars, cancelVars, churnVars, updVars, pureVars, sim, clock>>

Poll == PStart \/ PHSet \/ PZAdd \/ FindAvailable("poll")

\* ------------------------------------------------ EventGenerator.simulate_agent_login_logout
\* the status the loop moves an agent of its list to
ChurnMove(e) == IF e.status = "AVAILABLE" THEN set_paused(e) ELSE set_available(e)

\* one round of agent_status_simulator that changes an agent: the agent object of
\* the loop's own list is not BUSY; it is moved and AgentRepository.save commits it
ChStep(a) ==
    /\ chpc = "idle"
    /\ cl.n < MaxChurn
    /\ cl.obj[a].status # "BUSY"
    /\ LET e == ChurnMove(Ent(a, cl.obj[a]))
       IN /\ db' = [db EXCEPT ![a] = Row(e)]
          /\ cl' = [obj |-> [cl.obj EXCEPT ![a] = Row(e)], agent |-> e, n |-> cl.n + 1]
    /\ chpc' = "ch_hset"
    /\ UNCHANGED <<ragent, index, rcall, lock, metrics, events, orchVars, workerVars,
                   timerVars, cancelVars, pollVars, updVars, pureVars, sim, clock>>

\* save: set_agent_status(saved_agent), HSET
ChHSet ==
    /\ chpc = "ch_hset"
    /\ ragent' = HSetAgent(cl.agent)
    /\ chpc' = "ch_zadd"
    /\ UNCHANGED <<db, index, rcall, lock, metrics, events, orchVars, workerVars,
                   timerVars, cancelVars, pollVars, cl, updVars, pureVars, sim, clock>>

\* save: set_agent_status(saved_agent), ZADD / ZREM
ChZAdd ==
    /\ chpc = "ch_zadd"
    /\ index' = ZUpdate(cl.agent)
    /\ chpc' = "idle"
    /\ UNCHANGED <<db, ragent, rcall, lock, metrics, events, orchVars, workerVars,
                   timerVars, cancelVars, pollVars, cl, updVars, pureVars, sim, clock>>

Churn == (\E a \in Agents : ChStep(a)) \/ ChHSet \/ ChZAdd

\* ------------------------------------------------ AgentRepository.update_status
\* the setter update_status applies for the status asked: AVAILABLE and PAUSED
\* have one, any other status leaves the agent as read
UpdMove(e, st) ==
    IF st = "AVAILABLE" THEN set_available(e)
    ELSE IF st = "PAUSED" THEN set_paused(e)
    ELSE e

\* PUT /agents/{a}/status with status st: find_by_id reads the agent's hash and
\* the setter is applied to the object built from it
UFind(a, st) ==
    /\ upc = "idle"
    /\ ul.n < MaxUpdates
    /\ ul' = [aid |-> a, st |-> st, agent |-> UpdMove(Ent(a, ragent[a]), st),
              n |-> ul.n + 1]
    /\ upc' = "u_commit"
    /\ UNCHANGED <<storeVars, orchVars, workerVars, timerVars, cancelVars, pollVars,
                   churnVars, sim, pureVars, clock>>

\* save: the row is updated and committed
UCommit ==
    /\ upc = "u_commit"
    /\ db' = [db EXCEPT ![ul.aid] = Row(ul.agent)]
    /\ upc' = "u_hset"
    /\ UNCHANGED <<ragent, index, rcall, lock, metrics, events, orchVars, workerVars,
                   timerVars, cancelVars, pollVars, churnVars, ul, sim, pureVars, clock>>

\* save: set_agent_status(saved_agent), HSET
UHSet ==
    /\ upc = "u_hset"
    /\ ragent' = HSetAgent(ul.agent)
    /\ upc' = "u_zadd"
    /\ UNCHANGED <<db, index, rcall, lock, metrics, events, orchVars, workerVars,
                   timerVars, cancelVars, pollVars, churnVars, ul, sim, pureVars, clock>>

\* save: set_agent_status(saved_agent), ZADD / ZREM
UZAdd ==
    /\ upc = "u_zadd"
    /\ index' = ZUpdate(ul.agent)
    /\ upc' = "idle"
    /\ UNCHANGED <<db, ragent, rcall, lock, metrics, events, orchVars, workerVars,
                   timerVars, cancelVars, pollVars, churnVars, ul, sim, pureVars, clock>>

UpdateStatus == (\E a \in Agents, st \in AgentStatus : UFind(a, st)) \/ UCommit \/ UHSet \/ UZAdd

Dispatch(w) ==
    \/ Start(w) \/ Register(w) \/ AcquireLock(w)
    \/ SatWrite(w) \/ SatNotify(w) \/ SatMetric(w)
    \/ BindCall(w) \/ BindHSet(w) \/ BindZRem(w) \/ Schedule(w)
    \/ Notify(w) \/ Metric(w) \/ ReleaseLock(w)

\* ------------------------------------------------ EventGenerator.simulate_call_arrivals
\* simulate_call_arrivals(calls, rate, max_concurrent) is called with the first n
\* calls: results are zeroed, is_running is set, the semaphore is created
SimBegin ==
    /\ sim.main = "none"
    /\ \E n \in 0..Cardinality(Workers), m \in 1..MaxConcurrent :
          sim' = [NoSim EXCEPT !.running = TRUE, !.main = "loop", !.n = n, !.max = m]
    /\ UNCHANGED <<storeVars, orchVars, workerVars, timerVars, cancelVars, pollVars,
                   churnVars, updVars, pureVars, clock>>

\* the arrival loop: is_running is tested; the first call's task is created at
\* once, a later one after the inter-arrival sleep; the loop ends when no call
\* is left or is_running is found false, and gather is awaited
SimLoop ==
    /\ \/ /\ sim.main = "loop" /\ sim.running /\ sim.i = 0 /\ sim.n > 0
          /\ sim' = [sim EXCEPT !.i = 1, !.spc["w1"] = "waiting"]
       \/ /\ sim.main = "loop" /\ sim.running /\ sim.i > 0 /\ sim.i < sim.n
          /\ sim' = [sim EXCEPT !.main = "sleep"]
       \/ /\ sim.main = "sleep"
          /\ sim' = [sim EXCEPT !.main = "loop", !.i = @ + 1, !.spc["w2"] = "waiting"]
       \/ /\ sim.main = "loop"
          /\ ~sim.running \/ sim.i = sim.n
          /\ sim' = [sim EXCEPT !.main = "gather"]
    /\ UNCHANGED <<storeVars, orchVars, workerVars, timerVars, cancelVars, pollVars,
                   churnVars, updVars, pureVars, clock>>

\* process_call entering without the semaphore
SimAcquireAny(w) ==
    /\ sim.spc[w] = "waiting"
    /\ sim' = [sim EXCEPT !.spc[w] = IF sim.running THEN "calling" ELSE "done"]
    /\ UNCHANGED <<storeVars, orchVars, workerVars, timerVars, cancelVars, pollVars,
                   churnVars, updVars, pureVars, clock>>

\* process_call calling assign_call without looking at is_running
SimAcquireBlind(w) ==
    /\ sim.spc[w] = "waiting"
    /\ Cardinality({v \in Workers : sim.spc[v] = "calling"}) < sim.max
    /\ sim' = [sim EXCEPT !.spc[w] = "calling"]
    /\ UNCHANGED <<storeVars, orchVars, workerVars, timerVars, cancelVars, pollVars,
                   churnVars, updVars, pureVars, clock>>

\* process_call: the semaphore is acquired while fewer than max_concurrent hold
\* it; is_running false: the task returns at once, else assign_call is called
SimAcquire(w) ==
    /\ sim.spc[w] = "waiting"
    /\ Cardinality({v \in Workers : sim.spc[v] = "calling"}) < sim.max
    /\ sim' = [sim EXCEPT !.spc[w] = IF sim.running THEN "calling" ELSE "done"]
    /\ UNCHANGED <<storeVars, orchVars, workerVars, timerVars, cancelVars, pollVars,
                   churnVars, updVars, pureVars, clock>>

\* process_call counting a failure without looking for "saturated" in its message
SimCountBare(w) ==
    /\ sim.spc[w] = "calling"
    /\ pc[w] = "done"
    /\ sim' = [sim EXCEPT
                 !.spc[w] = "done",
                 !.results = IF wl[w].res = "success"
                             THEN [@ EXCEPT !.succ = @ + 1, !.times = @ + 1]
                             ELSE [@ EXCEPT !.fail = @ + 1]]
    /\ UNCHANGED <<storeVars, orchVars, workerVars, timerVars, cancelVars, pollVars,
                   churnVars, updVars, pureVars, clock>>

\* process_call: assign_call has returned; the result is counted and the
\* semaphore released
SimCount(w) ==
    /\ sim.spc[w] = "calling"
    /\ pc[w] = "done"
    /\ sim' = [sim EXCEPT
                 !.spc[w] = "done",
                 !.results = IF wl[w].res = "success"
                             THEN [@ EXCEPT !.succ = @ + 1, !.times = @ + 1]
                             ELSE [@ EXCEPT !.fail = @ + 1,
                                            !.sat = IF wl[w].res = "saturated"
                                                    THEN @ + 1 ELSE @]]
    /\ UNCHANGED <<storeVars, orchVars, workerVars, timerVars, cancelVars, pollVars,
                   churnVars, updVars, pureVars, clock>>

\* gather is over: every task created has ended; the report is returned
SimReturn ==
    /\ sim.main = "gather"
    /\ \A w \in Workers : sim.spc[w] \in {"none", "done"}
    /\ sim' = [sim EXCEPT !.main = "returned"]
    /\ UNCHANGED <<storeVars, orchVars, workerVars, timerVars, cancelVars, pollVars,
                   churnVars, updVars, pureVars, clock>>

\* EventGenerator.stop_simulation, called during the simulation
stop_simulation ==
    /\ sim.main \in {"loop", "sleep", "gather"}
    /\ sim.running
    /\ sim' = [sim EXCEPT !.running = FALSE]
    /\ UNCHANGED <<storeVars, orchVars, workerVars, timerVars, cancelVars, pollVars,
                   churnVars, updVars, pureVars, clock>>

\* ------------------------------------------------ failing collaborators
\* where assign_call goes on when the fast-tier command it is waiting for raises:
\* every RedisClient method catches the exception and returns its default (None,
\* False or []), and a failed HSET of set_agent_status skips its ZREM
FailNext == [reg |-> "lock", lock |-> "done", fa_zrange |-> "fa_db",
             bind_call |-> "bind_hset", bind_hset |-> "rm_pending",
             bind_zrem |-> "rm_pending", sat_write |-> "sat_notify",
             sat_metric |-> "release", metric |-> "release", release |-> "done"]

\* a fast-tier command of assign_call raises: nothing is written, the caller goes on
CacheFails(w) ==
    /\ pc[w] \in DOMAIN FailNext
    /\ pc' = [pc EXCEPT ![w] = FailNext[pc[w]]]
    /\ wl' = [wl EXCEPT ![w].cfail = TRUE,
                        ![w].res = CASE pc[w] = "lock" -> "race"
                                     [] pc[w] = "sat_metric" -> "saturated"
                                     [] pc[w] = "metric" -> "success"
                                     [] OTHER -> @]
    /\ fa' = IF pc[w] = "fa_zrange"
             THEN [fa EXCEPT ![w] = [ids |-> <<>>, acc |-> <<>>, todo |-> <<>>]]
             ELSE fa
    /\ UNCHANGED <<storeVars, orchVars, callObj, wobj, timerVars, cancelVars, pollVars,
                   churnVars, updVars, pureVars, sim, clock>>

\* the failed post's exception reaches assign_call
NotifyRaises(w) ==
    /\ pc[w] \in {"notify", "sat_notify"}
    /\ pc' = [pc EXCEPT ![w] = "err_release"]
    /\ UNCHANGED <<storeVars, orchVars, callObj, wobj, fa, wl, timerVars, cancelVars,
                   pollVars, churnVars, updVars, pureVars, sim, clock>>

\* a webhook post gets a non-200 answer or raises: _send_webhook returns False
NotifyFails(w) ==
    /\ \/ /\ pc[w] = "notify"
          /\ pc' = [pc EXCEPT ![w] = "metric"]
          /\ tpc' = tpc
       \/ /\ pc[w] = "sat_notify"
          /\ pc' = [pc EXCEPT ![w] = "sat_metric"]
          /\ tpc' = tpc
       \/ /\ tpc[w] = "c_notify"
          /\ tpc' = [tpc EXCEPT ![w] = "c_metric1"]
          /\ pc' = pc
    /\ UNCHANGED <<storeVars, orchVars, callObj, wobj, fa, wl, tl, cancelVars, pollVars,
                   churnVars, updVars, pureVars, sim, clock>>

\* find_available's database fallback cannot get a session: get_session raises
\* outside the method's try, and the exception reaches assign_call's finally
DbRaises(w) ==
    /\ pc[w] = "fa_db"
    /\ pc' = [pc EXCEPT ![w] = "err_release"]
    /\ UNCHANGED <<storeVars, orchVars, callObj, wobj, fa, wl, timerVars, cancelVars,
                   pollVars, churnVars, updVars, pureVars, sim, clock>>

\* an exception that skips the finally block
ErrSkipRelease(w) ==
    /\ pc[w] = "err_release"
    /\ pc' = [pc EXCEPT ![w] = "err_metric"]
    /\ UNCHANGED <<storeVars, orchVars, callObj, wobj, fa, wl, timerVars, cancelVars,
                   pollVars, churnVars, updVars, pureVars, sim, clock>>

\* finally: release_assignment_lock, with the exception pending
ErrRelease(w) ==
    /\ pc[w] = "err_release"
    /\ lock' = [lock EXCEPT ![CallOf(w)] = Null]
    /\ pc' = [pc EXCEPT ![w] = "err_metric"]
    /\ UNCHANGED <<db, ragent, index, rcall, metrics, events, orchVars, callObj, wobj,
                   fa, wl, timerVars, cancelVars, pollVars, churnVars, updVars, pureVars, sim, clock>>

\* the exception leaves assign_call
ErrReraise(w) ==
    /\ pc[w] = "err_metric"
    /\ wl' = [wl EXCEPT ![w].res = "raised"]
    /\ pc' = [pc EXCEPT ![w] = "done"]
    /\ UNCHANGED <<storeVars, orchVars, callObj, wobj, fa, timerVars, cancelVars,
                   pollVars, churnVars, updVars, pureVars, sim, clock>>

\* except Exception: increment_metric("assignment_errors"); the error result is returned
ErrMetric(w) ==
    /\ pc[w] = "err_metric"
    /\ metrics' = Incr(metrics, "assignment_errors")
    /\ wl' = [wl EXCEPT ![w].res = "error"]
    /\ pc' = [pc EXCEPT ![w] = "done"]
    /\ UNCHANGED <<db, ragent, index, rcall, lock, events, orchVars, callObj, wobj,
                   fa, timerVars, cancelVars, pollVars, churnVars, updVars, pureVars, sim, clock>>

\* ------------------------------------------------ specifications
\* dispatch workers and their release timers
NextCore ==
    \/ \E w \in Workers : Dispatch(w)
    \/ \E w \in Workers : FindAvailable(w)
    \/ \E w \in Workers : Complete(w)

SpecCore == Init /\ [][NextCore]_vars

\* two workers dispatch the same call id, with lock tokens that may expire
InitDup ==
    /\ Init
    /\ CallOf("w2") = "c1"

NextLock == NextCore \/ \E c \in Calls : LockExpire(c)

SpecLock == InitDup /\ [][NextLock]_vars

\* the workers dispatch distinct calls
InitDistinct ==
    /\ Init
    /\ CallOf("w2") = "c2"

\* one worker dispatches while calls are cancelled
NextCancel ==
    \/ Dispatch("w1") \/ FindAvailable("w1") \/ Complete("w1")
    \/ Cancel

SpecCancel == InitDistinct /\ [][NextCancel]_vars

\* one worker dispatches while calls are cancelled and get_system_status is polled
NextCancelPoll == NextCancel \/ Poll

SpecCancelPoll == InitDistinct /\ [][NextCancelPoll]_vars

\* one worker dispatches while get_system_status is polled
NextPoll ==
    \/ Dispatch("w1") \/ FindAvailable("w1") \/ Complete("w1")
    \/ Poll

SpecPoll == InitDistinct /\ [][NextPoll]_vars

\* one worker dispatches while the churn loop runs
NextChurn ==
    \/ Dispatch("w1") \/ FindAvailable("w1") \/ Complete("w1")
    \/ Churn

SpecChurn == InitDistinct /\ [][NextChurn]_vars

\* one worker dispatches while agent statuses are updated through the API
NextStatus ==
    \/ Dispatch("w1") \/ FindAvailable("w1") \/ Complete("w1")
    \/ UpdateStatus

SpecStatus == InitDistinct /\ [][NextStatus]_vars

\* one worker dispatches while get_system_status is polled and the churn loop
\* runs; the event loop runs every task that is ready, and a sleep ends
NextLive ==
    \/ Dispatch("w1") \/ FindAvailable("w1") \/ Complete("w1")
    \/ Poll
    \/ Churn

SpecLive ==
    /\ InitDistinct
    /\ [][NextLive]_vars
    /\ WF_vars(Dispatch("w1") \/ FindAvailable("w1"))
    /\ WF_vars(Complete("w1"))
    /\ WF_vars(Poll)
    /\ WF_vars(Churn)

\* one worker dispatches while collaborators fail
NextFault ==
    \/ Dispatch("w1") \/ FindAvailable("w1") \/ Complete("w1")
    \/ CacheFails("w1") \/ NotifyFails("w1")
    \/ DbRaises("w1") \/ ErrRelease("w1") \/ ErrMetric("w1")

SpecFault == InitDistinct /\ [][NextFault]_vars

\* simulate_call_arrivals drives the dispatches and is not stopped: assign_call
\* runs only inside a process_call task that holds the semaphore
NextSim ==
    \/ SimBegin \/ SimLoop \/ SimReturn
    \/ \E w \in Workers :
          \/ SimAcquire(w) \/ SimCount(w)
          \/ (sim.spc[w] = "calling" /\ Dispatch(w))
          \/ FindAvailable(w) \/ Complete(w)

SpecSim == InitDistinct /\ [][NextSim]_vars

\* simulate_call_arrivals with stop_simulation called at any moment; the event
\* loop runs every task that is ready (the release timers are left out)
NextStop ==
    \/ SimBegin \/ SimLoop \/ SimReturn \/ stop_simulation
    \/ \E w \in Workers :
          \/ SimAcquire(w) \/ SimCount(w)
          \/ (sim.spc[w] = "calling" /\ Dispatch(w))
          \/ FindAvailable(w)

SpecStop ==
    /\ InitDistinct
    /\ [][NextStop]_vars
    /\ WF_vars(SimLoop) /\ WF_vars(SimReturn)
    /\ \A w \in Workers :
          /\ WF_vars(SimAcquire(w)) /\ WF_vars(SimCount(w))
          /\ WF_vars((sim.spc[w] = "calling" /\ Dispatch(w)) \/ FindAvailable(w))

\* LongestIdleTimeStrategy.select_agent alone: the candidate list is any list of
\* at most MaxSelLen agents, each in any status, never served or last served at
\* a time up to MaxSelEnd; the strategy is applied to it at time MaxSelEnd
SelRows == [status : AgentStatus, cur : {Null}, lastEnd : {NoTime} \cup (0..MaxSelEnd)]

\* the list of agents with the rows f, the i-th agent's id being i
SelList(f, n) == [i \in 1..n |-> Ent(ToString(i), f[i])]

InitSelect ==
    /\ InitRest
    /\ CallOf("w2") = "c2"
    /\ \A a \in Agents : db[a].status = "OFFLINE"
    /\ \E n \in 0..MaxSelLen : \E f \in [1..n -> SelRows] :
          fa = [t \in Tasks |-> [ids |-> <<>>, todo |-> <<>>,
                                 acc |-> IF t = "w1" THEN SelList(f, n) ELSE <<>>]]
    /\ clock = MaxSelEnd

\* AssignmentService.assign_call: strategy.select_agent(available_agents, call)
SelectStep(w) ==
    /\ pc[w] = "idle"
    /\ wl' = [wl EXCEPT ![w].agent = select_agent(fa[w].acc, clock)]
    /\ pc' = [pc EXCEPT ![w] = "selected"]
    /\ UNCHANGED <<storeVars, orchVars, callObj, wobj, fa, timerVars, cancelVars,
                   pollVars, churnVars, updVars, pureVars, sim, clock>>

NextSelect == SelectStep("w1")

SpecSelect == InitSelect /\ [][NextSelect]_vars

\* a duration that is the sample itself
raw_duration(x) == x

\* Assignment alone: each of two Assignment objects, created PENDING, is taken
\* through any sequence of activate, complete and fail; the duration handed to
\* complete is one QualificationService.generate_duration returns
generate_duration(x) == IF x > 1 THEN x ELSE 1

InitAssignment ==
    /\ InitBase
    /\ CallOf("w2") = "c2"
    /\ asg = [w \in Workers |-> [status |-> "PENDING", call_id |-> CallOf(w),
                                agent_id |-> "a1", dur |-> NoTime]]
    /\ fa = [t \in Tasks |-> [ids |-> <<>>, acc |-> <<>>, todo |-> <<>>]]
    /\ clock = 0

\* Assignment.activate: ValueError unless PENDING
activate(w) ==
    /\ asg[w].status = "PENDING"
    /\ asg' = [asg EXCEPT ![w].status = "ACTIVE"]
    /\ UNCHANGED <<storeVars, active_assignments, call_timers, workerVars, timerVars,
                   cancelVars, pollVars, churnVars, updVars, pureVars, sim, clock>>

\* Assignment.complete: ValueError unless ACTIVE
complete(w) ==
    /\ asg[w].status = "ACTIVE"
    /\ \E x \in (0 - MaxDuration)..MaxDuration :
          asg' = [asg EXCEPT ![w].status = "COMPLETED", ![w].dur = generate_duration(x)]
    /\ UNCHANGED <<storeVars, active_assignments, call_timers, workerVars, timerVars,
                   cancelVars, pollVars, churnVars, updVars, pureVars, sim, clock>>

\* Assignment.fail: no guard
fail(w) ==
    /\ asg' = [asg EXCEPT ![w].status = "FAILED"]
    /\ UNCHANGED <<storeVars, active_assignments, call_timers, workerVars, timerVars,
                   cancelVars, pollVars, churnVars, updVars, pureVars, sim, clock>>

NextAssignment == \E w \in Workers : activate(w) \/ complete(w) \/ fail(w)

SpecAssignment == InitAssignment /\ [][NextAssignment]_vars

\* ------------------------------------------------ generate_test_calls alone
\* settings.call_types
call_types == <<"llamada_tipo_1", "llamada_tipo_2", "llamada_tipo_3", "llamada_tipo_4">>

\* the decimal digits of k, as format(k, "d") writes them
RECURSIVE Digits(_)
Digits(k) == IF k < 10 THEN <<ToString(k)>> ELSE Append(Digits(k \div 10), ToString(k % 10))

\* a fill of zeros on the left up to a width, as the format "06d" asks for
RECURSIVE ZeroPad(_, _)
ZeroPad(d, width) == IF Len(d) >= width THEN d ELSE ZeroPad(<<"0">> \o d, width)

\* f"+1555{call_count:06d}"
phone_number(call_count) == <<"+", "1", "5", "5", "5">> \o ZeroPad(Digits(call_count), 6)

\* a share that forgets the remainder
floor_call_count(i, num_calls) == num_calls \div Len(call_types)

\* type_call_count of the i-th type (0-based): calls_per_type, and one more when
\* i < remaining_calls
type_call_count(i, num_calls) ==
    (num_calls \div Len(call_types))
        + (IF i < num_calls % Len(call_types) THEN 1 ELSE 0)

\* the calls appended by the outer loop from the i-th type on, call_count calls
\* having been appended before
RECURSIVE CallsFrom(_, _, _)
CallsFrom(i, call_count, num_calls) ==
    IF i >= Len(call_types) THEN <<>>
    ELSE LET k == type_call_count(i, num_calls)
         IN [j \in 1..k |-> [phone_number |-> phone_number(call_count + j - 1),
                             call_type |-> call_types[i + 1],
                             status |-> "PENDING"]]
            \o CallsFrom(i + 1, call_count + k, num_calls)

\* random.shuffle(calls): every rearrangement of the list
Shuffles(s) ==
    LET n == Len(s)
    IN {[i \in 1..n |-> s[q[i]]] :
           q \in {f \in [1..n -> 1..n] : \A a, b \in 1..n : a # b => f[a] # f[b]}}

\* one call of EventGenerator.generate_test_calls(num_calls); the list returned
\* is the one kept in generated_calls
generate_test_calls ==
    /\ ret.fn = "none"
    /\ \E num_calls \in 0..MaxCalls : \E calls \in Shuffles(CallsFrom(0, 0, num_calls)) :
          ret' = [fn |-> "generate_test_calls", arg |-> <<num_calls>>, val |-> calls]
    /\ UNCHANGED <<storeVars, orchVars, workerVars, timerVars, cancelVars, pollVars,
                   churnVars, updVars, sim, delay, zscore, clock>>

InitPure ==
    /\ InitDistinct
    /\ \A a \in Agents : db[a].status = "OFFLINE"

NextGenerate == generate_test_calls

SpecGenerate == InitPure /\ [][NextGenerate]_vars

\* ------------------------------------------------------- qualify_call alone
AgentTypes == {"agente_tipo_1", "agente_tipo_2"}
CallTypes == {"llamada_tipo_1", "llamada_tipo_2"}
\* a type that is a key of no matrix
Unknown == "invalid"

\* a probability k / ProbSteps is written k
Probs == 0..ProbSteps

\* the conversion matrices: some agent types, each with some call types
Rows == UNION {[cs -> Probs] : cs \in SUBSET CallTypes}
Matrices == UNION {[as -> Rows] : as \in SUBSET AgentTypes}

\* QualificationService.get_conversion_probability
get_conversion_probability(m, agent_type, call_type) ==
    IF agent_type \notin DOMAIN m THEN 0
    ELSE IF call_type \notin DOMAIN m[agent_type] THEN 0
    ELSE m[agent_type][call_type]

\* a trial that may fail whatever the probability
binomial_fair(p) == {0, 1}

\* the outcomes of random_generator.binomial(n=1, p=probability)
binomial(p) == IF p = 0 THEN {0} ELSE IF p = ProbSteps THEN {1} ELSE {0, 1}

\* one call of QualificationService.qualify_call on a service built with matrix m
qualify_call ==
    /\ ret.fn = "none"
    /\ \E m \in Matrices : \E agent_type \in AgentTypes \cup {Unknown} :
       \E call_type \in CallTypes \cup {Unknown} :
       \E result \in binomial(get_conversion_probability(m, agent_type, call_type)) :
          ret' = [fn |-> "qualify_call", arg |-> <<m, agent_type, call_type>>,
                  val |-> IF result = 1 THEN "OK" ELSE "KO"]
    /\ UNCHANGED <<storeVars, orchVars, workerVars, timerVars, cancelVars, pollVars,
                   churnVars, updVars, sim, delay, zscore, clock>>

NextQualify == qualify_call

SpecQualify == InitPure /\ [][NextQualify]_vars

\* ------------------------------------------- the arming of a release timer
\* assign_call from the activated Assignment to the timer: expected_duration is
\* what generate_duration returns for the sample drawn, the assignment is put in
\* active_assignments, and _schedule_call_completion creates the task that
\* sleeps for expected_duration.  In the other specifications the delay is not
\* kept: there a timer may fire at any later step.
schedule_call_completion(w) ==
    /\ asg[w].status = "ACTIVE"
    /\ call_timers[CallOf(w)] = Null
    /\ \E x \in (0 - MaxDuration)..MaxDuration :
          LET expected_duration == generate_duration(x)
          IN /\ ret' = [fn |-> "generate_duration", arg |-> <<x>>,
                        val |-> expected_duration]
             /\ delay' = [delay EXCEPT ![CallOf(w)] = expected_duration]
    /\ active_assignments' = [active_assignments EXCEPT ![CallOf(w)] = w]
    /\ call_timers' = [call_timers EXCEPT ![CallOf(w)] = w]
    /\ UNCHANGED <<storeVars, asg, workerVars, timerVars, cancelVars, pollVars,
                   churnVars, updVars, sim, zscore, clock>>

NextDuration == \E w \in Workers : activate(w) \/ schedule_call_completion(w)

SpecDuration == InitAssignment /\ [][NextDuration]_vars

\* ------------------------------------------------------------------ startup
\* the matrices settings.conversion_matrix can be loaded as: every entry a
\* float, written k for k / ProbSteps, in or out of the range of a probability
AnyProbs == (0 - 1)..(ProbSteps + 1)
AnyMatrices == [AgentTypes -> [CallTypes -> AnyProbs]]

\* QualificationService.validate_matrix_probabilities
validate_matrix_probabilities(m) ==
    \A agent_type \in DOMAIN m : \A call_type \in DOMAIN m[agent_type] :
        0 <= m[agent_type][call_type] /\ m[agent_type][call_type] <= ProbSteps

\* CallOrchestrator.__init__: QualificationService(settings.conversion_matrix);
\* the orchestrator built is the one that serves
Startup ==
    /\ ret.fn = "none"
    /\ \E m \in AnyMatrices :
          ret' = [fn |-> "CallOrchestrator", arg |-> <<m>>, val |-> "serving"]
    /\ UNCHANGED <<storeVars, orchVars, workerVars, timerVars, cancelVars, pollVars,
                   churnVars, updVars, sim, delay, zscore, clock>>

\* the serving orchestrator qualifies a completed call (_complete_call):
\* binomial raises ValueError for p < 0 or p > 1
ServeQualify ==
    /\ ret.fn = "CallOrchestrator"
    /\ \E agent_type \in AgentTypes : \E call_type \in CallTypes :
          LET p == get_conversion_probability(ret.arg[1], agent_type, call_type)
          IN IF p < 0 \/ p > ProbSteps
             THEN ret' = [ret EXCEPT !.val = "ValueError"]
             ELSE \E result \in binomial(p) :
                     ret' = [ret EXCEPT !.val = IF result = 1 THEN "OK" ELSE "KO"]
    /\ UNCHANGED <<storeVars, orchVars, workerVars, timerVars, cancelVars, pollVars,
                   churnVars, updVars, sim, delay, zscore, clock>>

NextStartup == Startup \/ ServeQualify

SpecStartup == InitPure /\ [][NextStartup]_vars

\* -------------------------------------- AssignmentService.assign_call alone
\* the service's assign_call on a call and an agent list, at time now: what it
\* returns, and the call and the list as it leaves them (both are mutated in
\* place).  call.assign_to_agent comes first; a ValueError of
\* selected_agent.assign_call is caught after it.
service_assign_call(call, agents, now) ==
    LET sel == select_agent(agents, now)
        none == [assignment |-> NoAssignment, agent |-> NoAgent]
        bound == [call EXCEPT !.status = "ASSIGNED", !.agent = sel.id]
    IN IF call.status # "PENDING"
       THEN none @@ [call |-> call, agents |-> agents]
       ELSE IF sel.id = Null
       THEN none @@ [call |-> call, agents |-> agents]
       ELSE IF ~is_available(sel)
       THEN none @@ [call |-> bound, agents |-> agents]
       ELSE [assignment |-> [status |-> "ACTIVE", call_id |-> call.id,
                             agent_id |-> sel.id],
             agent |-> AgentAssignCall(sel, call.id),
             call |-> bound,
             agents |-> [i \in 1..Len(agents) |->
                            IF agents[i].id = sel.id
                            THEN AgentAssignCall(sel, call.id) ELSE agents[i]]]

\* one call of AssignmentService.assign_call: a call in any status, a list of at
\* most MaxSelLen agents in any status
ServiceAssign ==
    /\ ret.fn = "none"
    /\ \E st \in CallStatus : \E n \in 0..MaxSelLen : \E f \in [1..n -> SelRows] :
          LET call == [NewCall("c1") EXCEPT
                          !.status = st,
                          !.agent = IF st \in {"PENDING", "FAILED"} THEN Null ELSE "a1"]
              agents == SelList(f, n)
          IN ret' = [fn |-> "assign_call", arg |-> <<call, agents>>,
                     val |-> service_assign_call(call, agents, MaxSelEnd)]
    /\ UNCHANGED <<storeVars, orchVars, workerVars, timerVars, cancelVars, pollVars,
                   churnVars, updVars, sim, delay, zscore, clock>>

NextService == ServiceAssign

SpecService == InitPure /\ [][NextService]_vars

\* ------------------------------------------- the availability index alone
\* the scores of the sorted set are kept here only; in the other
\* specifications the index is its set of members, read in RevOrder
\* the score written for an agent that never served a call
InfScore == 999999

\* Agent.get_idle_time_seconds at time now; float('inf') is InfScore + 1
get_idle_time_seconds(e, now) == IF e.lastEnd = NoTime THEN InfScore + 1 ELSE now - e.lastEnd

\* the idle_time set_agent_status computes
idle_time(e, now) ==
    IF e.lastEnd = NoTime THEN InfScore ELSE get_idle_time_seconds(e, now)

\* an idle_time that is never written: every member keeps one score
flat_idle_time(e, now) == 0

\* RedisClient.set_agent_status(e), both commands: HSET, then ZADD with the
\* idle time as score when e is available, ZREM otherwise
IdxWrite(e) ==
    /\ ragent' = HSetAgent(e)
    /\ index' = ZUpdate(e)
    /\ zscore' = [zscore EXCEPT ![e.id] = IF is_available(e) THEN idle_time(e, clock)
                                          ELSE NoTime]

\* set_agent_status of an agent as its callers hand it over: after
\* set_available / set_paused, after Agent.assign_call, after Agent.complete_call
IdxSet(a) ==
    /\ LET e == Ent(a, ragent[a])
       IN \/ /\ e.status # "BUSY"
             /\ \E st \in {"AVAILABLE", "PAUSED", "OFFLINE"} :
                   IdxWrite([e EXCEPT !.status = st])
          \/ /\ is_available(e)
             /\ IdxWrite(AgentAssignCall(e, "c1"))
          \/ /\ e.status = "BUSY"
             /\ IdxWrite(AgentCompleteCall(e, clock))
    /\ UNCHANGED <<db, rcall, lock, metrics, events, orchVars, workerVars, timerVars,
                   cancelVars, pollVars, churnVars, updVars, sim, ret, delay, clock>>

\* wall time passes
IdxTick ==
    /\ clock < MaxIdxTime
    /\ clock' = clock + 1
    /\ UNCHANGED <<storeVars, orchVars, workerVars, timerVars, cancelVars, pollVars,
                   churnVars, updVars, sim, pureVars>>

\* the position of a member among members of one score (ZREVRANGE: reverse
\* lexicographical order)
RevPos(a) == CHOOSE i \in 1..Len(RevOrder) : RevOrder[i] = a

\* ZREVRANGE available_agents 0 -1: by score, highest first
ZRevRange ==
    CHOOSE s \in [1..Cardinality(index) -> index] :
        \A i, j \in 1..Cardinality(index) :
            i < j => \/ zscore[s[i]] > zscore[s[j]]
                     \/ zscore[s[i]] = zscore[s[j]] /\ RevPos(s[i]) < RevPos(s[j])

\* RedisClient.get_available_agents(limit): ZREVRANGE 0 limit-1, or 0 -1 when
\* limit is None or 0
IdxGet ==
    /\ \E limit \in 0..Cardinality(Agents) :
          ret' = [fn |-> "get_available_agents", arg |-> <<limit>>,
                  val |-> IF limit = 0 \/ limit >= Len(ZRevRange) THEN ZRevRange
                          ELSE SubSeq(ZRevRange, 1, limit)]
    /\ UNCHANGED <<storeVars, orchVars, workerVars, timerVars, cancelVars, pollVars,
                   churnVars, updVars, sim, delay, zscore, clock>>

NextIndex == IdxTick \/ IdxGet \/ \E a \in Agents : IdxSet(a)

SpecIndex == InitPure /\ [][NextIndex]_vars

\* ------------------------------------------------ a dispatch in wall time
\* one dispatch and one status update while wall time passes: every await of
\* assign_call may take time
NextLatency ==
    \/ Dispatch("w1") \/ FindAvailable("w1")
    \/ UpdateStatus
    \/ IdxTick

SpecLatency == InitDistinct /\ [][NextLatency]_vars

\* ------------------------------------------- AgentRepository.find_by_id alone
\* a tier that holds nothing for an agent
AbsentRow == [status |-> "NONE", cur |-> Null, lastEnd |-> NoTime]

\* what a tier can hold for an agent: nothing, or a row in any status
TierRows ==
    {AbsentRow} \cup
    {[status |-> st, cur |-> IF st = "BUSY" THEN "c1" ELSE Null, lastEnd |-> le] :
        st \in AgentStatus, le \in {NoTime, 0}}

\* a lookup that caches nothing
find_by_id_uncached(a, fast, idx, durable) ==
    IF fast # AbsentRow
    THEN [agent |-> Ent(a, fast), fast |-> fast, idx |-> idx, db_read |-> FALSE]
    ELSE [agent |-> IF durable # AbsentRow THEN Ent(a, durable) ELSE NoAgent,
          fast |-> fast, idx |-> idx, db_read |-> TRUE]

\* find_by_id(a) with the hash fast and the row durable, idx being whether a is
\* in the index: the agent returned (NoAgent for None), the fast tier as it is
\* left, and whether the durable tier was read.  get_agent_status returns None
\* for a missing hash; the fallback selects the row, and set_agent_status
\* writes the hash and adds to or removes from the index.
find_by_id(a, fast, idx, durable) ==
    IF fast # AbsentRow
    THEN [agent |-> Ent(a, fast), fast |-> fast, idx |-> idx, db_read |-> FALSE]
    ELSE IF durable # AbsentRow
    THEN [agent |-> Ent(a, durable), fast |-> Row(Ent(a, durable)),
          idx |-> is_available(Ent(a, durable)), db_read |-> TRUE]
    ELSE [agent |-> NoAgent, fast |-> fast, idx |-> idx, db_read |-> TRUE]

\* one call of find_by_id on tiers in any state
FindById ==
    /\ ret.fn = "none"
    /\ \E a \in Agents : \E fast \in TierRows : \E durable \in TierRows :
       \E idx \in BOOLEAN :
          ret' = [fn |-> "find_by_id", arg |-> <<a, fast, idx, durable>>,
                  val |-> find_by_id(a, fast, idx, durable)]
    /\ UNCHANGED <<storeVars, orchVars, workerVars, timerVars, cancelVars, pollVars,
                   churnVars, updVars, sim, delay, zscore, clock>>

NextFind == FindById

SpecFind == InitPure /\ [][NextFind]_vars

\* ================================================================ claims
\* positions of assign_call between its lock acquisition and its lock release
Locked == {"fa_zrange", "fa_get", "fa_db", "fa_dbw_hset", "fa_dbw_zadd", "sat_write",
           "sat_notify", "sat_metric", "bind_call", "bind_hset", "bind_zrem",
           "rm_pending", "notify", "metric", "release"}

\* C1: no two ACTIVE assignments of distinct calls share an agent id.
C1_OneActivePerAgent ==
    \A w \in Workers : \A v \in Workers \ {w} :
        ~(/\ asg[w].status = "ACTIVE"
          /\ asg[v].status = "ACTIVE"
          /\ asg[w].call_id # asg[v].call_id
          /\ asg[w].agent_id = asg[v].agent_id)

\* C2: when two workers dispatch the same call id while an agent is AVAILABLE
\* and both have returned, exactly one returned success, the other the race
\* failure, and one assignment with one release timer exists for the call.
C2_DuplicateArrival ==
    (/\ CallOf("w1") = CallOf("w2")
     /\ \E a \in Agents : db[a].status = "AVAILABLE"
     /\ \A w \in Workers : pc[w] = "done")
    => /\ {wl[w].res : w \in Workers} = {"success", "race"}
       /\ Cardinality({w \in Workers : asg[w].status # "NONE"}) = 1
       /\ Cardinality({w \in Workers : tpc[w] # "none"}) = 1

\* C3: an agent is a member of the availability index iff its fast-tier status
\* is AVAILABLE.
C3_IndexIffAvailable ==
    \A a \in Agents : (a \in index) <=> (ragent[a].status = "AVAILABLE")

\* C4: select_agent returns None iff no agent of the list is AVAILABLE; otherwise
\* it returns an AVAILABLE agent of the list whose idle time is the maximum over
\* the AVAILABLE agents of the list, a never-served agent (null last_call_end_time)
\* outranking every agent with a finite idle time.
C4_SelectAgent ==
    pc["w1"] = "selected" =>
        LET L == fa["w1"].acc
            r == wl["w1"].agent
            Avail == {i \in 1..Len(L) : L[i].status = "AVAILABLE"}
        IN /\ (r.id = Null) <=> (Avail = {})
           /\ (r.id # Null) =>
                 \E i \in Avail :
                    /\ L[i] = r
                    /\ \A j \in Avail :
                          \/ r.lastEnd = NoTime
                          \/ /\ L[j].lastEnd # NoTime
                             /\ clock - r.lastEnd >= clock - L[j].lastEnd

\* a never-served OFFLINE agent, then two AVAILABLE agents: the one idle longest
\* is returned
C4_Witness ==
    /\ pc["w1"] = "selected"
    /\ Len(fa["w1"].acc) = 3
    /\ fa["w1"].acc[1].status = "OFFLINE" /\ fa["w1"].acc[1].lastEnd = NoTime
    /\ fa["w1"].acc[2].status = "AVAILABLE" /\ fa["w1"].acc[2].lastEnd = 1
    /\ fa["w1"].acc[3].status = "AVAILABLE" /\ fa["w1"].acc[3].lastEnd = 0
    /\ wl["w1"].agent = fa["w1"].acc[3]

\* the workers whose dispatch was resolved as saturation and has sent its event
Saturated(c) ==
    {w \in Workers : CallOf(w) = c /\ (pc[w] = "sat_metric" \/ wl[w].res = "saturated")}

\* C5: a dispatch resolved as saturation leaves its call FAILED, has emitted one
\* SYSTEM_SATURATED event and added one to calls_saturated, has written no agent,
\* has selected no agent, armed no release timer, filed no assignment under
\* active_assignments, and does not report success.
C5_Saturation ==
    /\ \A w \in Workers :
          wl[w].res = "saturated" =>
             /\ Obj(w).status = "FAILED"
             /\ (CallOf("w1") # CallOf("w2")) => rcall[CallOf(w)].status = "FAILED"
             /\ ~wl[w].wrote
             /\ wl[w].agent = NoAgent
             /\ tpc[w] = "none"
             /\ asg[w] = NoAssignment
             /\ active_assignments[CallOf(w)] # w
             /\ wl[w].res # "success"
    /\ \A c \in Calls : events["SYSTEM_SATURATED"][c] = Cardinality(Saturated(c))
    /\ metrics["calls_saturated"] = Cardinality({w \in Workers : wl[w].res = "saturated"})

\* a dispatch has returned the saturation result while the other bound an agent
C5_Witness ==
    \E w \in Workers : \E v \in Workers :
        /\ pc[w] = "done" /\ wl[w].res = "saturated"
        /\ rcall[CallOf(w)].status = "FAILED"
        /\ wl[v].res = "success"

\* C6: once a dispatch has returned success and while its release timer is
\* pending, the call is ASSIGNED to the selected agent, that agent is BUSY on
\* that call, the assignment of the pair is ACTIVE and filed, one CALL_ASSIGNED
\* event was sent and one timer is armed for the call (distinct call ids).
C6_BindAllThree ==
    \A w \in Workers :
        (/\ CallOf("w1") # CallOf("w2")
         /\ pc[w] = "done" /\ wl[w].res = "success"
         /\ tpc[w] = "sleeping")
        => LET c == CallOf(w)
               a == wl[w].agent.id
           IN /\ rcall[c].status = "ASSIGNED" /\ rcall[c].agent = a
              /\ ragent[a].status = "BUSY" /\ ragent[a].cur = c
              /\ asg[w] = [status |-> "ACTIVE", call_id |-> c, agent_id |-> a]
              /\ active_assignments[c] = w
              /\ events["CALL_ASSIGNED"][c] = 1
              /\ call_timers[c] = w

\* C7: the write that binds an agent (the HSET of the BUSY agent) is made only
\* while the agent's fast-tier status is AVAILABLE.
C7_BindOnlyAvailable ==
    [][\A w \in Workers :
          (pc[w] = "bind_hset" /\ pc'[w] = "bind_zrem")
          => ragent[wl[w].agent.id].status = "AVAILABLE"]_vars

\* C8: no two executions of assign_call for the same call id are both between
\* their lock acquisition and their lock release.
C8_MutualExclusion ==
    \A w \in Workers : \A v \in Workers \ {w} :
        ~(CallOf(w) = CallOf(v) /\ pc[w] \in Locked /\ pc[v] \in Locked)

\* C9: a release timer that has fired and ended (distinct call ids) has left its
\* call COMPLETED with a qualification OK or KO, its agent AVAILABLE with no
\* current call and a last-call-end time, in the index, its assignment COMPLETED
\* and unfiled, one CALL_COMPLETED event, and its counters incremented.
C9_CompletePostState ==
    \A w \in Workers :
        (/\ CallOf("w1") # CallOf("w2")
         /\ tpc[w] \in {"done", "failed"})
        => /\ rcall[TCall(w)].status = "COMPLETED"
           /\ rcall[TCall(w)].qual \in {"OK", "KO"}
           /\ tl[w].agent.status = "AVAILABLE"
           /\ tl[w].agent.cur = Null
           /\ tl[w].agent.lastEnd # NoTime
           /\ asg[w].status = "COMPLETED"
           /\ active_assignments[TCall(w)] = Null
           /\ events["CALL_COMPLETED"][TCall(w)] = 1
           /\ metrics["calls_completed"] >= 1
           /\ metrics["calls_ok"] + metrics["calls_ko"] = metrics["calls_completed"]

\* C10: cancel_call of a call whose release timer was armed and pending, once
\* returned: the timer is cancelled, the call is ABANDONED with no qualification,
\* no CALL_COMPLETED event was sent for it, calls_abandoned is 1 and the cancel
\* succeeded, having made the bound agent AVAILABLE with no current call.
C10_CancelBeforeFire ==
    (xpc = "idle" /\ xl.n = 1 /\ xl.armed)
    => /\ xl.res = "true"
       /\ \A w \in Workers : CallOf(w) = xl.call => tpc[w] \in {"none", "cancelled"}
       /\ rcall[xl.call].status = "ABANDONED"
       /\ rcall[xl.call].qual = "PENDING"
       /\ events["CALL_COMPLETED"][xl.call] = 0
       /\ metrics["calls_abandoned"] = 1
       /\ xl.agent.status = "AVAILABLE" /\ xl.agent.cur = Null
       /\ active_assignments[xl.call] = Null

\* C11: cancel_call of a call whose release timer had fired and whose completion
\* had finished, once returned, has left the stored call COMPLETED with its
\* qualification and bound agent, the agent AVAILABLE and in the index, and
\* calls_abandoned at 0.
C11_CancelAfterFire ==
    (xpc = "idle" /\ xl.n = 1 /\ xl.fired)
    => /\ rcall[xl.call].status = "COMPLETED"
       /\ rcall[xl.call].qual \in {"OK", "KO"}
       /\ rcall[xl.call].agent # Null
       /\ metrics["calls_abandoned"] = 0

\* C12: a step of _complete_call for a call stored as ABANDONED changes no call,
\* agent or assignment state, sends no event and increments no counter.
C12_FireAfterAbandon ==
    [][\A w \in Workers :
          (/\ tpc[w] \in {"c_getcall", "c_err"}
           /\ rcall[TCall(w)].status = "ABANDONED"
           /\ tpc'[w] \notin {tpc[w], "cancelled"})
          => /\ rcall' = rcall /\ ragent' = ragent /\ index' = index
             /\ asg' = asg /\ active_assignments' = active_assignments
             /\ events' = events
             /\ metrics' = metrics]_vars

\* C13: a CALL_COMPLETED event of a call has been sent only after a CALL_ASSIGNED
\* event of that call.
C13_CompletedAfterAssigned ==
    \A c \in Calls : events["CALL_COMPLETED"][c] <= events["CALL_ASSIGNED"][c]

\* C14: every step of a dispatch that writes the call's stored state is taken
\* under the call's lock, the step that arms the timer follows the bind writes,
\* and a successful dispatch releases the lock only with its timer armed.
C14_DispatchOrder ==
    [][\A w \in Workers :
          (pc'[w] # pc[w])
          => /\ (rcall' # rcall) => (pc[w] \in Locked /\ lock[CallOf(w)] = w)
             /\ (tpc[w] = "none" /\ tpc'[w] = "sleeping")
                   => (wl[w].wrote /\ pc[w] = "rm_pending")
             /\ (pc[w] = "release" /\ wl[w].res = "success") => tpc[w] # "none"]_vars

\* C15: every stored agent, in the fast tier and in the durable tier, has a
\* current call id exactly when its status is BUSY
C15_CurrentCallIffBusy ==
    \A a \in Agents :
        /\ (ragent[a].cur # Null) <=> (ragent[a].status = "BUSY")
        /\ (db[a].cur # Null) <=> (db[a].status = "BUSY")

\* C16: every change of an agent's stored status follows the graph
\* OFFLINE <-> AVAILABLE <-> BUSY, AVAILABLE <-> PAUSED, and a change from BUSY
\* to AVAILABLE is the write of a release (_complete_call or cancel_call).
C16_StatusGraph ==
    [][\A a \in Agents :
          (ragent'[a].status # ragent[a].status)
          => /\ <<ragent[a].status, ragent'[a].status>> \in
                   {<<"OFFLINE", "AVAILABLE">>, <<"AVAILABLE", "OFFLINE">>,
                    <<"AVAILABLE", "BUSY">>, <<"BUSY", "AVAILABLE">>,
                    <<"AVAILABLE", "PAUSED">>, <<"PAUSED", "AVAILABLE">>}
             /\ (ragent[a].status = "BUSY")
                   => \/ \E w \in Workers : tpc[w] = "c_hset" /\ tpc'[w] = "c_zadd"
                      \/ xpc = "x_hset" /\ xpc' = "x_zadd"]_vars

\* C17: no step of the churn loop changes the durable or the fast-tier status
\* of an agent whose fast-tier status is BUSY when the step is taken.
C17_ChurnSparesBusy ==
    [][(chpc' # chpc)
          => \A a \in Agents :
                (ragent[a].status = "BUSY")
                => /\ ragent'[a].status = "BUSY"
                   /\ db'[a].status = db[a].status]_vars

\* C18: with no cancel_call and with weak fairness of every task, a dispatch
\* that has armed its release timer leads to a state where the call is stored
\* COMPLETED, its agent is stored AVAILABLE and active_assignments is empty.
C18_CompletionFires ==
    \A w \in Workers :
        (tpc[w] = "sleeping")
        ~> /\ TCall(w) # Null /\ TAgent(w) # Null
           /\ rcall[TCall(w)].status = "COMPLETED"
           /\ ragent[TAgent(w)].status = "AVAILABLE"
           /\ \A c \in Calls : active_assignments[c] = Null

\* C19: every stored call that is PENDING has no agent, every stored call that
\* is ASSIGNED, IN_PROGRESS or COMPLETED has an agent, and a stored call has
\* qualification OK or KO only when it is COMPLETED.
C19_CallInvariants ==
    \A c \in Calls :
        /\ (rcall[c].status = "PENDING") => (rcall[c].agent = Null)
        /\ (rcall[c].status \in {"ASSIGNED", "IN_PROGRESS", "COMPLETED"})
              => (rcall[c].agent # Null)
        /\ (rcall[c].qual \in {"OK", "KO"}) => (rcall[c].status = "COMPLETED")

\* a completion has stored a call COMPLETED with its agent and a settled
\* qualification, and a cancel_call has run as well
C19_Witness ==
    /\ xl.n >= 1
    /\ \E c \in Calls :
          /\ rcall[c].status = "COMPLETED"
          /\ rcall[c].agent # Null
          /\ rcall[c].qual \in {"OK", "KO"}

\* C20: an Assignment becomes ACTIVE only from PENDING and COMPLETED only from
\* ACTIVE, a COMPLETED assignment never changes status again, and an assignment
\* that becomes COMPLETED has an actual duration of at least 1 second.
C20_AssignmentHistory ==
    [][\A w \in Workers :
          (asg'[w].status # asg[w].status)
          => /\ asg[w].status # "COMPLETED"
             /\ (asg'[w].status = "ACTIVE") => (asg[w].status = "PENDING")
             /\ (asg'[w].status = "COMPLETED")
                   => (asg[w].status = "ACTIVE" /\ asg'[w].dur >= 1)]_vars

\* C21: an assign_call that has ended has returned a result, not raised, and
\* the result is a success only if the dispatch bound an assignment.
C21_AlwaysReturns ==
    \A w \in Workers :
        (pc[w] = "done")
        => /\ wl[w].res \in {"success", "race", "saturated", "selection_error", "error"}
           /\ (asg[w].status = "NONE") => (wl[w].res # "success")

\* an assign_call ended with the error result after a collaborator raised
C21_Witness ==
    /\ pc["w1"] = "done"
    /\ wl["w1"].res = "error"
    /\ asg["w1"].status = "NONE"
    /\ metrics["assignment_errors"] = 1

\* C22: an assign_call that has ended after one of its fast-tier commands
\* failed has not returned success and has incremented assignment_errors.
C22_CacheFailureIsFatal ==
    \A w \in Workers :
        (pc[w] = "done" /\ wl[w].cfail)
        => /\ wl[w].res # "success"
           /\ metrics["assignment_errors"] >= 1

\* C23: a notification step of a dispatch, a saturation or a completion, whether
\* its post is delivered or fails, goes on to the same next step and changes
\* nothing but the record of delivered events.
C23_NotifierIsolated ==
    [][\A w \in Workers :
          /\ (pc[w] \in {"notify", "sat_notify"} /\ pc'[w] # pc[w])
                => /\ pc'[w] = (IF pc[w] = "notify" THEN "metric" ELSE "sat_metric")
                   /\ UNCHANGED <<db, ragent, index, rcall, lock, metrics, orchVars,
                                  callObj, wobj, fa, wl, timerVars>>
          /\ (tpc[w] = "c_notify" /\ tpc'[w] # tpc[w])
                => /\ tpc'[w] = "c_metric1"
                   /\ UNCHANGED <<db, ragent, index, rcall, lock, metrics, orchVars,
                                  workerVars, tl>>]_vars

\* a dispatch returned success with its timer armed and its counter incremented
\* although the CALL_ASSIGNED post failed
C23_Witness ==
    /\ pc["w1"] = "done"
    /\ wl["w1"].res = "success"
    /\ tpc["w1"] = "sleeping"
    /\ metrics["calls_assigned"] = 1
    /\ events["CALL_ASSIGNED"][CallOf("w1")] = 0

\* C24: when AgentRepository.save writes the durable row of an agent, the
\* agent's fast-tier hash already holds what is being saved.
C24_FastTierFirst ==
    [][(upc = "u_commit" /\ upc' # upc) => (ragent[ul.aid] = Row(ul.agent))]_vars

\* C25: the number of assign_call executions started by simulate_call_arrivals
\* and not yet returned never exceeds max_concurrent.
C25_MaxConcurrent ==
    (sim.main # "none")
    => Cardinality({w \in Workers : sim.spc[w] = "calling"}) <= sim.max

\* two calls were given with max_concurrent 1; the first is in flight and the
\* second waits for the semaphore
C25_Witness ==
    /\ sim.max = 1
    /\ sim.spc["w1"] = "calling"
    /\ pc["w1"] \notin {"idle", "done"}
    /\ sim.spc["w2"] = "waiting"

\* C26: when simulate_call_arrivals over n calls with distinct ids has returned
\* without being stopped, successes plus saturations equal n, successes plus
\* failures equal n, and assignment_times has one entry per success.
C26_ReportAddsUp ==
    (sim.main = "returned" /\ sim.running)
    => /\ sim.results.succ + sim.results.sat = sim.n
       /\ sim.results.succ + sim.results.fail = sim.n
       /\ sim.results.times = sim.results.succ

\* a run over two calls returned with one success and one saturation
C26_Witness ==
    /\ sim.main = "returned"
    /\ sim.n = 2
    /\ sim.results.succ = 1
    /\ sim.results.sat = 1

\* C27: once stop_simulation has been called no process_call calls assign_call
\* any more; when simulate_call_arrivals has returned, every dispatch that was
\* started has ended and been counted; and a stopped simulation returns.
C27_StopSimulation ==
    /\ [][~sim.running
            => \A w \in Workers :
                  (sim.spc'[w] = "calling") => (sim.spc[w] = "calling")]_vars
    /\ [](sim.main = "returned"
            => /\ \A w \in Workers : pc[w] \in {"idle", "done"}
               /\ sim.results.succ + sim.results.fail
                     = Cardinality({w \in Workers : pc[w] = "done"}))
    /\ ((sim.main # "none" /\ ~sim.running) ~> (sim.main = "returned"))

\* a simulation over two calls was stopped while the first dispatch was in
\* flight: it returned with that dispatch counted and the second never started
C27_Witness ==
    /\ sim.main = "returned"
    /\ ~sim.running
    /\ sim.n = 2
    /\ pc["w1"] = "done"
    /\ pc["w2"] = "idle"
    /\ sim.results.succ + sim.results.fail = 1

\* C28: generate_test_calls(n) returns exactly n calls, all PENDING, the i-th
\* declared type (0-based) occurring floor(n/M) + (1 if i < n mod M else 0)
\* times among them, and no two of the calls have the same phone number.
C28_TestCalls ==
    ret.fn = "generate_test_calls" =>
        LET n == ret.arg[1]
            calls == ret.val
            M == Len(call_types)
        IN /\ Len(calls) = n
           /\ \A k \in 1..Len(calls) : calls[k].status = "PENDING"
           /\ \A i \in 0..(M - 1) :
                 Cardinality({k \in 1..Len(calls) : calls[k].call_type = call_types[i + 1]})
                    = (n \div M) + (IF i < n % M THEN 1 ELSE 0)
           /\ \A j, k \in 1..Len(calls) :
                 j # k => calls[j].phone_number # calls[k].phone_number

\* six calls were asked for: two types have two calls, two have one, and the
\* list is not in the order of creation
C28_Witness ==
    /\ ret.fn = "generate_test_calls"
    /\ ret.arg[1] = 6
    /\ Len(ret.val) = 6
    /\ ret.val[1].call_type = "llamada_tipo_4"
    /\ ret.val[1].phone_number = <<"+", "1", "5", "5", "5", "0", "0", "0", "0", "0", "5">>

C30_DurationFloor ==
    /\ ret.fn = "generate_duration" =>
          /\ ret.val >= 1
          /\ ret.arg[1] >= 1 => ret.val = ret.arg[1]
          /\ ret.arg[1] < 1 => ret.val = 1
    /\ \A c \in Calls : call_timers[c] # Null => delay[c] >= 1

\* one timer was armed with a sample above one second and kept it, the other
\* with a negative sample and sleeps one second
C30_Witness ==
    /\ ret.fn = "generate_duration"
    /\ ret.arg[1] < 0
    /\ call_timers["c1"] = "w1" /\ delay["c1"] = MaxDuration
    /\ call_timers["c2"] = "w2" /\ delay["c2"] = 1

\* C31: a conversion matrix with an entry outside [0,1] is rejected at startup:
\* no orchestrator serves calls with a matrix that validate_matrix_probabilities
\* rejects.
C31_MatrixValidated ==
    (ret.fn = "CallOrchestrator" /\ ret.val # "serving")
        => validate_matrix_probabilities(ret.arg[1])

\* C32: when AssignmentService.assign_call fails, because the call is not
\* PENDING or the list holds no AVAILABLE agent, it returns no assignment and no
\* agent and leaves the call and every agent of the list as they were; a
\* PENDING call stays PENDING with no agent bound.
C32_FailedAssignLeavesAll ==
    ret.fn = "assign_call" =>
        LET call == ret.arg[1]
            agents == ret.arg[2]
        IN (call.status # "PENDING" \/ \A i \in 1..Len(agents) : ~is_available(agents[i]))
              => /\ ret.val.assignment = NoAssignment
                 /\ ret.val.agent = NoAgent
                 /\ ret.val.call = call
                 /\ ret.val.agents = agents

\* a PENDING call was offered two agents, neither AVAILABLE
C32_Witness ==
    /\ ret.fn = "assign_call"
    /\ ret.arg[1].status = "PENDING"
    /\ Len(ret.arg[2]) = 2
    /\ ret.arg[2][1].status = "BUSY"
    /\ ret.arg[2][2].status = "PAUSED"
    /\ ret.val.assignment = NoAssignment
    /\ ret.val.call.status = "PENDING" /\ ret.val.call.agent = Null

\* C33: the ids get_available_agents returns are AVAILABLE agents in the order
\* of their idle time at the read, longest first: of two returned agents the
\* earlier has been idle at least as long as the later, a never-served agent
\* counting as the longest idle.
C33_IndexByIdleTime ==
    [][(ret' # ret /\ ret'.fn = "get_available_agents") =>
          LET ids == ret'.val
          IN /\ \A i \in 1..Len(ids) : ragent[ids[i]].status = "AVAILABLE"
             /\ \A i, j \in 1..Len(ids) :
                   i < j => get_idle_time_seconds(Ent(ids[i], ragent[ids[i]]), clock)
                              >= get_idle_time_seconds(Ent(ids[j], ragent[ids[j]]), clock)]_vars

\* C34: the latency recorded on the Assignment is the length of the interval
\* from lock acquire to lock release (which stays within 100 ms at p95): the
\* latency is recorded when the Assignment is activated, so from that moment to
\* the release of the lock no wall time passes.
C34_LatencyIsLockInterval ==
    [][(lock["c1"] = "w1" /\ asg["w1"].status = "ACTIVE") => clock' = clock]_vars

C37_ReleaseOwnTokenOnly ==
    [][\A w \in Workers :
          (pc[w] = "release" /\ pc'[w] = "done" /\ lock[CallOf(w)] \in Workers \ {w})
          => lock'[CallOf(w)] = lock[CallOf(w)]]_vars

\* C38: get_system_status is read-only with respect to dispatch state: no step
\* of it changes an agent's fast-tier status or current call id, the
\* availability index, active_assignments or call_timers; an agent BUSY in the
\* fast tier before the poll is BUSY and out of the index after it.
C38_PollReadOnly ==
    [][Poll => UNCHANGED <<ragent, index, active_assignments, call_timers>>]_vars

\* C39: in every quiescent state (no assign_call, _complete_call or cancel_call
\* is mid-execution; here, with no get_system_status run so far) the call ids
\* with a timer are the call ids with an active assignment, every active
\* assignment is ACTIVE and its agent is BUSY in the fast tier with that call as
\* current call, and every BUSY agent is the agent of exactly one entry.
C39_BookkeepingAgrees ==
    (/\ \A w \in Workers : pc[w] \in {"idle", "done"}
     /\ \A w \in Workers : tpc[w] \in {"none", "sleeping", "done", "failed", "cancelled"}
     /\ xpc = "idle"
     /\ pl.n = 0)
    => /\ \A c \in Calls : (call_timers[c] # Null) <=> (active_assignments[c] # Null)
       /\ \A c \in Calls :
             active_assignments[c] # Null
             => LET a == asg[active_assignments[c]]
                IN /\ a.status = "ACTIVE"
                   /\ ragent[a.agent_id].status = "BUSY"
                   /\ ragent[a.agent_id].cur = c
       /\ \A b \in Agents :
             ragent[b].status = "BUSY"
             => Cardinality({c \in Calls :
                                /\ active_assignments[c] # Null
                                /\ asg[active_assignments[c]].agent_id = b}) = 1

\* C40: once a cancel_call(c) that began while a dispatch or a completion of c
\* was suspended at an await has returned, and the dispatch and the timer task
\* of c have ended too, c has exactly one terminal outcome (stored COMPLETED
\* with calls_completed at 1 and calls_abandoned at 0, or stored ABANDONED with
\* calls_abandoned at 1 and calls_completed at 0), and the agent that was bound
\* to c is AVAILABLE and in the availability index.
C40_OneTerminalOutcome ==
    (/\ xpc = "idle" /\ xl.n = 1 /\ xl.mid
     /\ pl.n = 0
     /\ \A w \in Workers : pc[w] \in {"idle", "done"}
     /\ \A w \in Workers : tpc[w] \in {"none", "done", "failed", "cancelled"}
     /\ \E w \in Workers : CallOf(w) = xl.call /\ asg[w].agent_id # Null)
    => /\ rcall[xl.call].status \in {"COMPLETED", "ABANDONED"}
       /\ rcall[xl.call].status = "COMPLETED"
             => metrics["calls_completed"] = 1 /\ metrics["calls_abandoned"] = 0
       /\ rcall[xl.call].status = "ABANDONED"
             => metrics["calls_abandoned"] = 1 /\ metrics["calls_completed"] = 0
       /\ \A w \in Workers :
             (CallOf(w) = xl.call /\ asg[w].agent_id # Null)
             => /\ ragent[asg[w].agent_id].status = "AVAILABLE"
                /\ asg[w].agent_id \in index

====
